---- MODULE Spec2Model ----
(***************************************************************************)
(* Call bridge of the voice-calling assistant: one carrier (Twilio) media  *)
(* socket, the DeepgramCallSession it creates, the agent (Deepgram) socket *)
(* of that session, and the persistence layer the handlers write to.       *)
(*                                                                         *)
(* Every handler runs on one event loop: the code between two awaits is    *)
(* one atomic step, and a handler suspended at an await is an entry of     *)
(* `handlers` that a later step resumes.                                   *)
(***************************************************************************)
EXTENDS Integers, Sequences, FiniteSets, TLC

(* ------------------------------ bounds -------------------------------- *)

\* Capacity of pendingAudioChunks. The code's literal is 256
\* (handleTwilioEvent); the model scales it down so that overflow is reached.
BufferCapacity == 2

\* Carrier media events beyond the capacity that the model lets arrive.
ExtraChunks == 1

MaxChunks == BufferCapacity + ExtraChunks

\* Handshake and tool-call messages the agent socket delivers in one
\* behaviour.
MaxAgentMsgs == 2

\* Messages with conversational text the agent socket delivers in one
\* behaviour: the cap of transcriptTurns.
MaxTranscripts == 1

\* Carrier stop events in one behaviour.
MaxStops == 1

\* Persistence writes that fail in one behaviour.
MaxDbFailures == 1

\* Rows of the transcript the extractor is applied to.
MaxTranscriptRows == 2

\* Runs of the Stale-Call Reconciler in one behaviour.
MaxReconcilerRuns == 2

\* Carrier media events on each of two concurrent carrier sockets.
MaxPeerChunks == 1

\* Transcript-bearing messages of a call whose arrival order is followed.
MaxTurns == 2

\* Frames that are not parsable JSON, on each of the two sockets of a call.
MaxUnparsable == 1

\* Start events on a carrier socket after its first
MaxRestarts == 1

\* Binary frames the agent socket delivers in a call
MaxBinaryFrames == 3

(* ------------------------------ values -------------------------------- *)

CallSid == "CA1"
NoCallSid == ""

\* readyState of the agent socket: "null" before connect(), then
\* "CONNECTING", "OPEN", "CLOSING", "CLOSED".

InSeq(x, seq) == \E i \in 1..Len(seq) : seq[i] = x

AudioFrame(c) == [type |-> "audio", chunk |-> c]

\* The prompts of the menu guard: the policy with the menu lines, the
\* sentence buildMenuGuardPrompt returns without a menu, and the sentence of
\* the .catch on its promise.
MenuPolicy == "Restaurant menu policy"
MenuUnavailable == "Menu is unavailable right now. Ask the caller to wait for staff assistance."
MenuCatch == "Menu unavailable."

\* The Settings message: think.prompt ends with the prompt of the menu guard.
SettingsWith(prompt) == [type |-> "Settings", chunk |-> 0, prompt |-> prompt]
SettingsFrame == SettingsWith(MenuPolicy)
CloseFrame == [type |-> "Close", chunk |-> 0]

\* Frames to the carrier socket, in the carrier's envelope.
StreamSid == "MZ1"
ClearFrame == [event |-> "clear", streamSid |-> StreamSid]

\* The character "=" of a base64 text; the other characters are their
\* index 0..63 in the base64 alphabet.
Pad == 64

\* The four characters of three bytes.
Sextets(a, b, c) ==
  LET n == a * 65536 + b * 256 + c
  IN <<n \div 262144, (n \div 4096) % 64, (n \div 64) % 64, n % 64>>

RECURSIVE base64_FirstGroup(_)
base64_FirstGroup(bytes) ==
  IF Len(bytes) = 0 THEN <<>>
  ELSE IF Len(bytes) = 1
       THEN <<Sextets(bytes[1], 0, 0)[1], Sextets(bytes[1], 0, 0)[2], Pad, Pad>>
  ELSE IF Len(bytes) = 2
       THEN SubSeq(Sextets(bytes[1], bytes[2], 0), 1, 3) \o <<Pad>>
  ELSE Sextets(bytes[1], bytes[2], bytes[3])

\* Buffer.from(raw).toString('base64'): four characters for every three
\* bytes, the last group padded.
RECURSIVE base64(_)
base64(bytes) ==
  IF Len(bytes) = 0 THEN <<>>
  ELSE IF Len(bytes) = 1
       THEN <<Sextets(bytes[1], 0, 0)[1], Sextets(bytes[1], 0, 0)[2], Pad, Pad>>
  ELSE IF Len(bytes) = 2
       THEN SubSeq(Sextets(bytes[1], bytes[2], 0), 1, 3) \o <<Pad>>
  ELSE Sextets(bytes[1], bytes[2], bytes[3]) \o base64(SubSeq(bytes, 4, Len(bytes)))

\* The binary frame of the agent's audio when one frame stands for all.
AudioBytes == <<77, 97, 110>>

MediaWith(payload) ==
  [event |-> "media", streamSid |-> StreamSid, payload |-> payload]
MediaFrame == MediaWith(base64(AudioBytes))

VARIABLES
  twilioWs,        \* carrier socket of the connection: "open" | "closed"
  activeCallSid,   \* closure variable of wss.on('connection')
  sessions,        \* the registry: call identifiers that map to a session
  session,         \* the DeepgramCallSession object and its agent socket
  handlers,        \* async handlers suspended at an await, in start order
  chunks,          \* per carrier media event: what the handler did with it
  agentMsgs,       \* handshake and tool-call messages the agent socket delivered
  stops,           \* number of carrier stop events delivered
  callRow,         \* the row of table calls with twilio_call_sid = CallSid
  callMessages,    \* rows of call_messages of that call, in insert order
  callEvents,      \* rows of call_events of that call: event type -> count
  structuredOutput,\* the row of call_structured_outputs of that call
  orders,          \* rows of table orders, in insert order
  reservations,    \* rows of table reservations, in insert order
  dbFailures,      \* number of persistence writes that failed
  priorCall,       \* the row of table calls of an earlier call
  outage,          \* the tables whose writes fail: an outage of the database
  reconcilerRuns,  \* number of runs of the Stale-Call Reconciler started
  peers,           \* two carrier sockets side by side: closure, session, counts
  registry,        \* the registry beside them: call identifier -> session (0: none)
  peerHandlers,    \* their async handlers suspended at an await
  peerCalls,       \* status of the rows of table calls of their calls
  unparsable,      \* frames that are not JSON delivered, per socket
  unhandled,       \* handler promises rejected with no catch, exceptions uncaught
  replaced,        \* the sessions a later start event took the place of
  extraction       \* the input a pure function is applied to, and its result: a
                   \* transcript and caller number and the customer extracted, or
                   \* a role field and event kind and the role inferred

vars == <<twilioWs, activeCallSid, sessions, session, handlers, chunks, agentMsgs, stops,
          callRow, callMessages, callEvents, structuredOutput, orders, reservations,
          dbFailures, priorCall, outage, reconcilerRuns,
          peers, registry, peerHandlers, peerCalls, unparsable, unhandled,
          extraction, replaced>>

bridgeVars == <<twilioWs, activeCallSid, sessions, session, chunks, agentMsgs, stops>>
dbVars == <<callRow, callMessages, callEvents, structuredOutput, orders, reservations,
            dbFailures>>

\* What the handlers of one call never write: the rows of other calls, the
\* condition of the database and the reconciler's timer.
peerVars == <<peers, registry, peerHandlers, peerCalls>>
processVars == <<unparsable, unhandled>>
auxVars == <<priorCall, outage, reconcilerRuns, peerVars, processVars, extraction, replaced>>

(* ----------------------- DeepgramCallSession -------------------------- *)

\* The object before connect(): field initialisers of the class.
\* agentOut and closeCalls belong to the agent socket: the frames passed to
\* deepgramWs.send and the number of deepgramWs.close() calls.
\* faults counts deepgramWs.send calls made while the socket is CONNECTING
\* (ws throws there). twilioOut belongs to the carrier socket the session
\* holds: the frames passed to twilioWs.send while that socket is open.
\* agentIn belongs to the agent socket: the binary frames it delivered.
NewSession ==
  [deepgramWs |-> "null", deepgramReady |-> FALSE, settingsSent |-> FALSE,
   transcriptTurns |-> 0, pendingAudioChunks |-> <<>>,
   agentOut |-> <<>>, closeCalls |-> 0, faults |-> 0, twilioOut |-> <<>>,
   agentIn |-> <<>>]

\* this.twilioWs.send(frame): a socket that is closed sends nothing.
twilioSend(s, ws, frame) ==
  IF ws = "open" THEN [s EXCEPT !.twilioOut = Append(@, frame)] ELSE s

bargeIn_OnlyWhenStreaming(s, ws) ==
  IF s.settingsSent /\ s.deepgramReady THEN twilioSend(s, ws, ClearFrame) ELSE s

\* The UserStartedSpeaking branch of the agent message handler.
bargeIn(s, ws) == twilioSend(s, ws, ClearFrame)

\* The binary branch of the agent message handler: agent audio, base64 in
\* the carrier's media envelope.
agentAudio(s, ws, raw) ==
  twilioSend([s EXCEPT !.agentIn = Append(@, raw)], ws, MediaWith(base64(raw)))

\* deepgramWs.send(frame)
WsSend(s, frame) ==
  CASE s.deepgramWs = "OPEN" -> [s EXCEPT !.agentOut = Append(@, frame)]
    [] s.deepgramWs = "CONNECTING" -> [s EXCEPT !.faults = @ + 1]
    [] OTHER -> s

\* deepgramWs.close()
WsClose(s) ==
  [s EXCEPT !.closeCalls = @ + 1,
            !.deepgramWs = IF @ \in {"OPEN", "CONNECTING"} THEN "CLOSING" ELSE @]

connect(s) == [s EXCEPT !.deepgramWs = "CONNECTING"]

sendDeepgram(s, frame) ==
  IF s.deepgramWs = "null" \/ s.deepgramWs # "OPEN" THEN s ELSE WsSend(s, frame)

BufferPush_Unbounded(buf, chunk) == Append(buf, chunk)

\* The push of handleTwilioEvent: a full buffer leaves the chunk out.
BufferPush(buf, chunk) ==
  IF Len(buf) < BufferCapacity THEN Append(buf, chunk) ELSE buf

\* What handleTwilioEvent does with a media chunk.
MediaFate(s) ==
  IF s.deepgramWs = "null" \/ s.deepgramWs # "OPEN" THEN "ignored"
  ELSE IF ~s.settingsSent \/ ~s.deepgramReady
       THEN IF Len(s.pendingAudioChunks) < BufferCapacity THEN "buffered" ELSE "full"
       ELSE "live"

handleTwilioMedia(s, chunk) ==
  IF s.deepgramWs = "null" \/ s.deepgramWs # "OPEN" THEN s
  ELSE IF ~s.settingsSent \/ ~s.deepgramReady
       THEN [s EXCEPT !.pendingAudioChunks = BufferPush(@, chunk)]
       ELSE WsSend(s, AudioFrame(chunk))

handleTwilioStop(s) ==
  IF s.deepgramWs = "null" \/ s.deepgramWs # "OPEN" THEN s
  ELSE WsClose(sendDeepgram(s, CloseFrame))

close_AnyState(s) ==
  IF s.deepgramWs # "null" THEN WsClose(sendDeepgram(s, CloseFrame)) ELSE s

close(s) ==
  IF s.deepgramWs # "null" /\ s.deepgramWs = "OPEN"
  THEN WsClose(sendDeepgram(s, CloseFrame))
  ELSE s

RECURSIVE SendAll_LastFirst(_, _)
SendAll_LastFirst(s, buf) ==
  IF buf = <<>> THEN s
  ELSE SendAll_LastFirst(WsSend(s, AudioFrame(buf[Len(buf)])), SubSeq(buf, 1, Len(buf) - 1))

\* `for (const chunk of this.pendingAudioChunks) this.deepgramWs.send(chunk)`
RECURSIVE SendAll(_, _)
SendAll(s, buf) ==
  IF buf = <<>> THEN s ELSE SendAll(WsSend(s, AudioFrame(Head(buf))), Tail(buf))

\* The SettingsApplied branch of the agent message handler.
settingsApplied(s) ==
  LET r == [s EXCEPT !.deepgramReady = TRUE] IN
  IF Len(r.pendingAudioChunks) > 0 /\ r.deepgramWs = "OPEN"
  THEN [SendAll(r, r.pendingAudioChunks) EXCEPT !.pendingAudioChunks = <<>>]
  ELSE r

\* The Welcome branch up to the await of buildMenuGuardPrompt.
welcomeBegin(s) == [s EXCEPT !.deepgramReady = FALSE]

\* The outcomes of the select of the active menu items: rows, no rows, an
\* error returned by the client, a rejected promise.
MenuFetches == {"rows", "empty", "error", "throws"}

buildMenuGuardPrompt_NoFallback(fetch) == IF fetch = "rows" THEN MenuPolicy ELSE ""

\* buildMenuGuardPrompt: `if (error || !data || data.length === 0)` returns
\* the static sentence.
buildMenuGuardPrompt(fetch) == IF fetch = "rows" THEN MenuPolicy ELSE MenuUnavailable

\* `await buildMenuGuardPrompt().catch(() => 'Menu unavailable.')`
menuPrompt(fetch) == IF fetch = "throws" THEN MenuCatch ELSE buildMenuGuardPrompt(fetch)

\* The Welcome branch after the await, with the prompt the await yielded.
welcomeResumeWith(s, prompt) ==
  [sendDeepgram(s, SettingsWith(prompt)) EXCEPT !.settingsSent = TRUE]

\* The Welcome branch after the await, the menu fetched.
welcomeResume(s) == welcomeResumeWith(s, menuPrompt("rows"))

(* --------------------------- agent messages --------------------------- *)

\* An optional string field of a JSON payload: absent, or a string given as
\* its sequence of characters.
Absent == [has |-> FALSE, v |-> <<>>]
Str(v) == [has |-> TRUE, v |-> v]

\* A text message of the agent socket, after JSON.parse: its kind
\* (evt.type), its conversational text as the set of words it contains
\* ({} when it carries none), its role field, and for a tool call the tool
\* name and the customer_name / guest_name argument. The optional arguments
\* of a tool call are left out of the payloads the model draws.
Evt(kind, role, text, name, argName) ==
  [kind |-> kind, role |-> role, text |-> text, name |-> name, argName |-> argName]

NoEvt == Evt("", "", {}, "", Absent)

TranscriptTexts == {{"hello"}, {"order"}, {"reserve"}, {"order", "reserve"}}
TranscriptRoles == {"user"}
ToolNames == {"create_order", "create_reservation"}
ArgNames == {Absent, Str(<<>>), Str(<<"A">>)}

orderToolSchema_AnyString(evt) == evt.argName.has

\* customer_name: z.string().min(1) / guest_name: z.string().min(1)
orderToolSchema(evt) == evt.argName.has /\ Len(evt.argName.v) >= 1
reservationToolSchema(evt) == evt.argName.has /\ Len(evt.argName.v) >= 1

(* ---------------------------- persistence ----------------------------- *)

NoCallRow ==
  [exists |-> FALSE, status |-> "none", from_number |-> "null",
   started_at |-> "null", ended_at |-> "null", summary |-> FALSE,
   created_at |-> "null"]

CallerPhone == "+15551234567"

\* upsertCall: the existing row's from_number, to_number, started_at and
\* ended_at are kept where the parameter is undefined. created_at is the
\* column's default now() of the insert: "recent" until the reconciler's
\* threshold has passed, then "old".
upsertCall(row, status, fromNumber, startedAt, endedAt) ==
  [exists |-> TRUE,
   status |-> status,
   from_number |-> IF fromNumber # "undefined" THEN fromNumber
                   ELSE IF row.exists THEN row.from_number ELSE "null",
   started_at |-> IF startedAt # "undefined" THEN startedAt
                  ELSE IF row.exists THEN row.started_at ELSE "null",
   ended_at |-> IF endedAt # "undefined" THEN endedAt
                ELSE IF row.exists THEN row.ended_at ELSE "null",
   summary |-> row.summary,
   created_at |-> IF row.exists THEN row.created_at ELSE "recent"]

EventTypes ==
  {"twilio.start", "deepgram.Welcome", "deepgram.SettingsApplied",
   "deepgram.UserStartedSpeaking", "deepgram.Metadata", "deepgram.Error",
   "deepgram.ConversationText", "deepgram.FunctionCallRequest",
   "structured_output.model_tool", "structured_output.transcript_fallback"}

\* The tag of a call identifier, a token of a row's notes.
Tag(sid) == [t |-> "auto", sid |-> sid]
Word(w) == [t |-> w, sid |-> ""]

\* notes ilike '%[auto:<sid>]%'
Tagged(row, sid) == \E i \in 1..Len(row.notes) : row.notes[i] = Tag(sid)

TaggedRows(table, sid) == {i \in 1..Len(table) : Tagged(table[i], sid)}

NoStructured ==
  [has |-> FALSE, source |-> "", order |-> FALSE, reservation |-> FALSE,
   has_actual_name |-> FALSE, status |-> ""]

\* The phrases of a transcript row that the extractor's patterns look for.
NamePhrase == "my name is a"
PartyPhrase == "table for 4"
TimePhrase == "7 pm"
ConfirmPhrase == "your table is reserved"

\* rows of call_messages with the given role whose text holds the phrase
Says(rows, roles, phrase) ==
  \E i \in 1..Len(rows) : rows[i].role \in roles /\ phrase \in rows[i].text

\* nameMatch on userTranscript and sanitizeExtractedName: a caller who says
\* "my name is a" has an actual name.
hasActualName(rows) == Says(rows, {"user"}, NamePhrase)

\* extractPartySize on the user and assistant transcripts.
hasPartySize(rows) == Says(rows, {"user", "assistant"}, PartyPhrase)

\* timeMatch on the whole transcript.
hasReservationTime(rows) == Says(rows, {"user", "assistant", "system"}, TimePhrase)

\* /(?:reservation|table).*(?:confirmed|reserved)|.../ on assistantTranscript
assistantConfirmedReservation(rows) == Says(rows, {"assistant"}, ConfirmPhrase)

\* reservation.status of the extracted outcome
reservationStatus(rows) ==
  IF \/ assistantConfirmedReservation(rows) /\ hasPartySize(rows) /\ hasReservationTime(rows)
     \/ hasActualName(rows) /\ hasPartySize(rows) /\ hasReservationTime(rows)
  THEN "confirmed" ELSE "escalated"

\* buildStructuredCallOutcome, the intents: the transcript includes "order"
\* (or a menu item matched), respectively "reservation", "reserve" or
\* "table for".
buildStructuredCallOutcome(rows) ==
  [has |-> TRUE, source |-> "transcript_fallback",
   order |-> \E i \in 1..Len(rows) : "order" \in rows[i].text,
   reservation |-> \E i \in 1..Len(rows) :
     rows[i].text \cap {"reserve", PartyPhrase, ConfirmPhrase} # {},
   has_actual_name |-> hasActualName(rows),
   status |-> reservationStatus(rows)]

(* ------------------------ the customer's name ------------------------- *)

\* A text is a sequence of tokens: words (letters only, with their case:
\* "none" lower, "first" capitalised, "all" upper, "mixed") and punctuation
\* marks. Whitespace separates two words that follow each other; the end of
\* a row of the transcript is the token Newline.
Lower(w) == [k |-> "w", w |-> w, caps |-> "none"]
Capital(w) == [k |-> "w", w |-> w, caps |-> "first"]
Mark(c) == [k |-> "p", w |-> c, caps |-> "none"]
Digits(d) == [k |-> "d", w |-> d, caps |-> "none"]
Newline == Mark("newline")

\* String.prototype.toLowerCase
toLowerCase(text) == [i \in 1..Len(text) |-> [text[i] EXCEPT !.caps = "none"]]

\* value.replace(/\b\w/g, (m) => m.toUpperCase()): the first letter of every
\* word becomes upper case, the others stay.
titleCase(text) ==
  [i \in 1..Len(text) |->
     IF text[i].k = "w" /\ text[i].caps = "none" THEN [text[i] EXCEPT !.caps = "first"]
     ELSE text[i]]

\* rows.filter(role).map(text).join('\n')
RECURSIVE JoinRows(_, _)
JoinRows(rows, roles) ==
  IF rows = <<>> THEN <<>>
  ELSE LET rest == JoinRows(Tail(rows), roles) IN
       IF Head(rows).role \notin roles THEN rest
       ELSE IF rest = <<>> THEN Head(rows).text
       ELSE Head(rows).text \o <<Newline>> \o rest

\* The text without the tokens of a set: marks that count as whitespace.
RECURSIVE Without(_, _)
Without(text, marks) ==
  IF text = <<>> THEN <<>>
  ELSE IF Head(text) \in marks THEN Without(Tail(text), marks)
       ELSE <<Head(text)>> \o Without(Tail(text), marks)

IsWordAt(text, j) == j \in 1..Len(text) /\ text[j].k = "w"

\* ([a-z]+(?:\s+[a-z]+){0,2}) at token j, a word: the word and, greedily,
\* up to two words that follow it.
Capture(text, j) ==
  SubSeq(text, j,
         IF ~IsWordAt(text, j + 1) THEN j
         ELSE IF ~IsWordAt(text, j + 2) THEN j + 1 ELSE j + 2)

HasAt(text, i, prefix) ==
  /\ i + Len(prefix) - 1 <= Len(text)
  /\ \A n \in 1..Len(prefix) : text[i + n - 1] = prefix[n]

\* The alternatives of a pattern, in the order the regular expression tries
\* them, that match at token i with a word behind them.
AltsAt(text, i, alts) ==
  {a \in 1..Len(alts) : HasAt(text, i, alts[a]) /\ IsWordAt(text, i + Len(alts[a]))}

\* text.match(/<prefix>\s+([a-z]+(?:\s+[a-z]+){0,2})/i)?.[1]: the leftmost
\* match, <<>> for none.
PrefixMatch(text, alts) ==
  LET at == {i \in 1..Len(text) : AltsAt(text, i, alts) # {}} IN
  IF at = {} THEN <<>>
  ELSE LET i == CHOOSE x \in at : \A y \in at : x <= y
           a == CHOOSE x \in AltsAt(text, i, alts) : \A y \in AltsAt(text, i, alts) : x <= y
       IN Capture(text, i + Len(alts[a]))

\* The longest run of one to three words at token i that the word `suffix`
\* follows, 0 for none.
RunBefore(text, i, suffix) ==
  LET ok(n) == /\ \A m \in 0..(n - 1) : IsWordAt(text, i + m)
               /\ i + n <= Len(text) /\ text[i + n] = suffix
  IN IF ok(3) THEN 3 ELSE IF ok(2) THEN 2 ELSE IF ok(1) THEN 1 ELSE 0

\* text.match(/([a-z]+(?:\s+[a-z]+){0,2})\s+speaking/i)?.[1]
SuffixMatch(text, suffix) ==
  LET at == {i \in 1..Len(text) : RunBefore(text, i, suffix) > 0} IN
  IF at = {} THEN <<>>
  ELSE LET i == CHOOSE x \in at : \A y \in at : x <= y
       IN SubSeq(text, i, i + RunBefore(text, i, suffix) - 1)

\* a ?? b
Else(a, b) == IF a # <<>> THEN a ELSE b

\* nameMatch of buildStructuredCallOutcome: the seven patterns on the user
\* transcript with commas and line ends turned into spaces.
nameMatch(userTranscript) ==
  LET u == Without(userTranscript, {Mark(","), Newline})
      l(w) == Lower(w)
  IN Else(PrefixMatch(u, <<<<l("my"), l("name"), l("is"), l("like")>>,
                           <<l("my"), l("name"), l("is")>>>>),
     Else(PrefixMatch(u, <<<<l("name"), l("is")>>>>),
     Else(PrefixMatch(u, <<<<l("this"), l("is")>>>>),
     Else(PrefixMatch(u, <<<<l("it"), Mark("'"), l("s")>>, <<l("it"), l("s")>>, <<l("its")>>>>),
     Else(SuffixMatch(u, l("speaking")),
     Else(PrefixMatch(u, <<<<l("i"), Mark("'"), l("m")>>, <<l("i"), l("m")>>, <<l("im")>>>>),
          PrefixMatch(u, <<<<l("under"), l("the"), l("name")>>,
                           <<l("under"), l("name")>>>>)))))))

\* assistantName: /thank you,\s*(mr\.|mrs\.|ms\.)?\s*(...)/i, then the same
\* with thanks; group 2.
assistantNameMatch(assistantTranscript) ==
  LET t == Without(assistantTranscript, {Newline})
      l(w) == Lower(w)
      after(start) ==
        <<start \o <<l("mr"), Mark(".")>>, start \o <<l("mrs"), Mark(".")>>,
          start \o <<l("ms"), Mark(".")>>, start>>
  IN Else(PrefixMatch(t, after(<<l("thank"), l("you"), Mark(",")>>)),
          PrefixMatch(t, after(<<l("thanks"), Mark(",")>>)))

Words(text) == [i \in 1..Len(text) |-> text[i].w]

\* name.replace(/[^\p{L}\s'-]/gu, ' ').replace(/\s+/g, ' ').trim(): the
\* words stay, digits and marks go (the apostrophe and the hyphen, which
\* the expression keeps, are in none of the names drawn).
RECURSIVE Cleaned(_)
Cleaned(name) ==
  IF name = <<>> THEN <<>>
  ELSE IF Head(name).k = "w" THEN <<Head(name)>> \o Cleaned(Tail(name))
       ELSE Cleaned(Tail(name))

\* sanitizeExtractedName: null (<<>>) for no name, for a name without a
\* letter, for the answers that are no names and for more than three words.
sanitizeExtractedName(name) ==
  LET cleaned == Cleaned(name) IN
  IF name = <<>> \/ cleaned = <<>> THEN <<>>
  ELSE IF Words(toLowerCase(cleaned)) \in
            {<<"fine">>, <<"okay">>, <<"ok">>, <<"yes">>, <<"no">>, <<"name">>,
             <<"my", "name">>, <<"customer">>}
       THEN <<>>
  ELSE IF Len(cleaned) > 3 THEN <<>>
  ELSE cleaned

\* fromNumber.replace(/\D/g, '')
RECURSIVE OnlyDigits(_)
OnlyDigits(chars) ==
  IF chars = <<>> THEN <<>>
  ELSE IF Head(chars) \in {"0", "1", "2", "3", "4", "5", "6", "7", "8", "9"}
       THEN <<Head(chars)>> \o OnlyDigits(Tail(chars))
       ELSE OnlyDigits(Tail(chars))

\* .slice(-4)
LastFour(chars) == IF Len(chars) <= 4 THEN chars ELSE SubSeq(chars, Len(chars) - 3, Len(chars))

fallbackCustomerName_FirstDigits(fromNumber) ==
  IF fromNumber.has /\ fromNumber.v # <<>>
  THEN <<Capital("caller"), Digits(SubSeq(OnlyDigits(fromNumber.v), 1, 4))>>
  ELSE <<Capital("caller")>>

\* fromNumber ? `Caller ${fromNumber.replace(/\D/g, '').slice(-4)}` : 'Caller'
fallbackCustomerName(fromNumber) ==
  IF fromNumber.has /\ fromNumber.v # <<>>
  THEN <<Capital("caller"), Digits(LastFour(OnlyDigits(fromNumber.v)))>>
  ELSE <<Capital("caller")>>

extractedName_AssistantAfterRejection(rows) ==
  Else(sanitizeExtractedName(nameMatch(toLowerCase(JoinRows(rows, {"user"})))),
       assistantNameMatch(toLowerCase(JoinRows(rows, {"assistant"}))))

\* extractedName of buildStructuredCallOutcome, from the lower-cased user and
\* assistant transcripts.
extractedName(rows) ==
  Else(nameMatch(toLowerCase(JoinRows(rows, {"user"}))),
       assistantNameMatch(toLowerCase(JoinRows(rows, {"assistant"}))))

\* customer of buildStructuredCallOutcome: name and has_actual_name. The
\* phrase "my name is a" of hasActualName above is a text PrefixMatch
\* matches.
customer(rows, fromNumber) ==
  LET cleanedName == sanitizeExtractedName(extractedName(rows)) IN
  [name |-> IF cleanedName # <<>> THEN titleCase(cleanedName)
            ELSE fallbackCustomerName(fromNumber),
   has_actual_name |-> cleanedName # <<>>]

\* Words of which another word is the beginning: "ordered".includes("order").
Prefixed == {<<"ordered", "order">>, <<"burgers", "burger">>}

\* text.includes(phrase), both in lower case: the words of the phrase in
\* a row, the last of them maybe the beginning of a longer word.
includesText(text, phrase) ==
  \E i \in 1..(Len(text) + 1 - Len(phrase)) :
    \A n \in 1..Len(phrase) :
      \/ text[i + n - 1] = phrase[n]
      \/ /\ n = Len(phrase) /\ text[i + n - 1].k = "w" /\ phrase[n].k = "w"
         /\ <<text[i + n - 1].w, phrase[n].w>> \in Prefixed

\* assistantOrderSignals: the assistant's lines that speak of the order,
\* joined by spaces.
RECURSIVE assistantOrderSignals(_)
assistantOrderSignals(rows) ==
  IF rows = <<>> THEN <<>>
  ELSE LET line == toLowerCase(Head(rows).text) IN
       (IF /\ Head(rows).role = "assistant"
           /\ \/ includesText(line, <<Lower("your"), Lower("order")>>)
              \/ includesText(line, <<Lower("you"), Lower("ordered")>>)
              \/ includesText(line, <<Lower("order"), Lower("for")>>)
        THEN line ELSE <<>>)
       \o assistantOrderSignals(Tail(rows))

\* transcriptForItems: the caller's turns, a line end, the signals.
transcriptForItems(rows) ==
  toLowerCase(JoinRows(rows, {"user"})) \o <<Newline>> \o assistantOrderSignals(rows)

RECURSIVE orderItems_PerMention(_, _)
orderItems_PerMention(rows, menuRows) ==
  IF menuRows = <<>> THEN <<>>
  ELSE LET item == Head(menuRows)
           line == [name |-> item.name, menuItemId |-> item.id, qty |-> 1,
                    lineTotalCents |-> item.price_cents]
           mentions == {i \in 1..Len(transcriptForItems(rows)) :
                          includesText(<<transcriptForItems(rows)[i]>>,
                                       toLowerCase(item.name))}
       IN [n \in 1..Cardinality(mentions) |-> line]
          \o orderItems_PerMention(rows, Tail(menuRows))

\* items: the rows of the menu whose name the text includes, in the order
\* of the menu, one of each at the price of the menu.
RECURSIVE orderItems(_, _)
orderItems(rows, menuRows) ==
  IF menuRows = <<>> THEN <<>>
  ELSE LET item == Head(menuRows) IN
       (IF includesText(transcriptForItems(rows), toLowerCase(item.name))
        THEN <<[name |-> item.name, menuItemId |-> item.id, qty |-> 1,
                lineTotalCents |-> item.price_cents]>>
        ELSE <<>>)
       \o orderItems(rows, Tail(menuRows))

\* items.reduce((sum, item) => sum + item.lineTotalCents, 0)
RECURSIVE totalCents(_)
totalCents(items) ==
  IF items = <<>> THEN 0 ELSE totalCents(SubSeq(items, 1, Len(items) - 1))
                              + items[Len(items)].lineTotalCents

\* transcript.includes('order') || items.length > 0, the transcript the
\* turns of every role.
indicatesOrder(rows, items) ==
  \/ includesText(toLowerCase(JoinRows(rows, {"user", "assistant", "system"})),
                  <<Lower("order")>>)
  \/ Len(items) > 0

\* buildStructuredCallOutcome is applied to the transcript and the menu:
\* intents.order and order.
ExtractOrder ==
  /\ ~extraction.done
  /\ LET items == orderItems(extraction.rows, extraction.menuRows) IN
     extraction' = [extraction EXCEPT
       !.done = TRUE,
       !.order = [total_cents |-> totalCents(items), items |-> items],
       !.intent = indicatesOrder(extraction.rows, items)]
  /\ UNCHANGED <<bridgeVars, handlers, dbVars, priorCall, outage, reconcilerRuns, peerVars,
                 unparsable, unhandled, replaced>>

\* No transcript handed to the extractor.
NoExtraction ==
  [rows |-> <<>>, fromNumber |-> Absent, done |-> FALSE,
   customer |-> [name |-> <<>>, has_actual_name |-> FALSE]]

\* sanitizeExtractedName is applied to a name.
SanitizeName ==
  /\ ~extraction.sanitized
  /\ extraction' = [extraction EXCEPT !.sanitized = TRUE,
                                      !.cleaned = sanitizeExtractedName(extraction.candidate)]
  /\ UNCHANGED <<bridgeVars, handlers, dbVars, priorCall, outage, reconcilerRuns, peerVars,
                 unparsable, unhandled, replaced>>

\* buildStructuredCallOutcome is applied to the transcript: the customer.
ExtractCustomer ==
  /\ ~extraction.done /\ extraction.rows # <<>>
  /\ extraction' = [extraction EXCEPT !.done = TRUE,
                                      !.customer = customer(extraction.rows, extraction.fromNumber)]
  /\ UNCHANGED <<bridgeVars, handlers, dbVars, priorCall, outage, reconcilerRuns, peerVars,
                 unparsable, unhandled, replaced>>

(* ----------------------------- handlers ------------------------------- *)

\* A suspended async handler: which handler, the await it is suspended at,
\* and its local variables.
Handler(kind, pc, evt) ==
  [kind |-> kind, pc |-> pc, evt |-> evt, callRow |-> NoCallRow, rows |-> <<>>,
   structured |-> NoStructured, existingOrder |-> FALSE, existingReservation |-> FALSE]

Done(i) == SubSeq(handlers, 1, i - 1) \o SubSeq(handlers, i + 1, Len(handlers))

Goto(i, pc) == [handlers EXCEPT ![i].pc = pc]

(* ------------------------ two carrier sockets ------------------------- *)

\* Two concurrent calls: carrier socket c streams the call PeerSid(c).
Peers == {1, 2}
PeerSid(c) == IF c = 1 THEN "CA1" ELSE "CA2"
PeerSids == {PeerSid(c) : c \in Peers}

\* A connection of wss.on('connection'): the carrier socket, the closure
\* variable activeCallSid, the session its start handler creates, and the
\* numbers of media events, stop events and agent messages it has had.
NewPeer ==
  [ws |-> "open", activeCallSid |-> NoCallSid, session |-> NewSession,
   media |-> 0, stops |-> 0, agentMsgs |-> 0]

NoPeers ==
  /\ peers = [c \in Peers |-> NewPeer]
  /\ registry = [sid \in PeerSids |-> 0]
  /\ peerHandlers = <<>>
  /\ peerCalls = [sid \in PeerSids |-> "none"]

sessionOf_AnySession(reg, sid) ==
  IF \E id \in PeerSids : reg[id] # 0
  THEN reg[CHOOSE id \in PeerSids : reg[id] # 0 /\ \A other \in PeerSids : reg[other] <= reg[id]]
  ELSE 0

\* sessions.get(sid): the connection whose session the entry holds, 0 for
\* undefined.
sessionOf(reg, sid) == reg[sid]

\* sessions.get(activeCallSid) on carrier socket c, and the session object
\* it yields.
Target(c) == sessionOf(registry, peers[c].activeCallSid)
SessionAt(n) == IF n = 0 THEN NewSession ELSE peers[n].session

\* sessions.get(activeCallSid)?.f(...): the peers with the session of
\* connection n, if any, replaced by what f made of it.
WithSession(n, ses) == IF n = 0 THEN peers ELSE [peers EXCEPT ![n].session = ses]

PeerHandler(c, pc) == [c |-> c, pc |-> pc, sid |-> PeerSid(c)]

(* ---------------------------- the process ----------------------------- *)

\* The two sockets of a call that deliver frames to the process.
Sockets == {"carrier", "agent"}

\* The process after start: no frame delivered, no promise rejected.
NoFaults ==
  /\ unparsable = [k \in Sockets |-> 0]
  /\ unhandled = 0
  /\ extraction = NoExtraction
  /\ replaced = <<>>

(* ------------------------------- Init --------------------------------- *)

Init ==
  /\ twilioWs = "open"
  /\ activeCallSid = NoCallSid
  /\ sessions = {}
  /\ session = NewSession
  /\ handlers = <<>>
  /\ chunks = <<>>
  /\ agentMsgs = 0
  /\ stops = 0
  /\ callRow = NoCallRow
  /\ callMessages = <<>>
  /\ callEvents = [e \in EventTypes |-> 0]
  /\ structuredOutput = NoStructured
  /\ orders = <<>>
  /\ reservations = <<>>
  /\ dbFailures = 0
  /\ priorCall = NoCallRow
  /\ outage = {}
  /\ reconcilerRuns = 0
  /\ NoPeers
  /\ NoFaults

(* ---------------------- carrier socket handlers ----------------------- *)

\* POST /twilio/voice: the call row is upserted before the stream starts.
Webhook ==
  /\ twilioWs = "open" /\ activeCallSid = NoCallSid /\ ~callRow.exists
  /\ callRow' = upsertCall(callRow, "in_progress", CallerPhone, "t", "undefined")
  /\ UNCHANGED <<bridgeVars, handlers, callMessages, callEvents, structuredOutput,
                 orders, reservations, dbFailures>>
  /\ UNCHANGED auxVars

\* ws.on('message'), event start. The carrier sends one start per stream.
CarrierStart ==
  /\ twilioWs = "open" /\ activeCallSid = NoCallSid
  /\ activeCallSid' = CallSid
  /\ session' = connect(NewSession)
  /\ sessions' = sessions \cup {CallSid}
  /\ handlers' = Append(handlers, Handler("twilio.start", "event", NoEvt))
  /\ UNCHANGED <<twilioWs, chunks, agentMsgs, stops, dbVars>>
  /\ UNCHANGED auxVars

\* ws.on('message'), event start, on a carrier socket that has had one,
\* with the call identifier of the first: the handler tests neither
\* activeCallSid nor the registry. sessions.set puts the new session in
\* the place of the one registered, which no handler can reach any more.
CarrierRestart ==
  /\ twilioWs = "open" /\ activeCallSid = CallSid
  /\ Len(replaced) < MaxRestarts
  /\ replaced' = IF CallSid \in sessions THEN Append(replaced, session) ELSE replaced
  /\ session' = connect(NewSession)
  /\ sessions' = sessions \cup {CallSid}
  /\ handlers' = Append(handlers, Handler("twilio.start", "event", NoEvt))
  /\ UNCHANGED <<twilioWs, activeCallSid, chunks, agentMsgs, stops, dbVars>>
  /\ UNCHANGED <<priorCall, outage, reconcilerRuns, peerVars, processVars, extraction>>

\* ws.on('message'), event media. Before the start event the handler
\* returns at `if (!activeCallSid) return`.
CarrierMedia ==
  /\ twilioWs = "open" /\ activeCallSid # NoCallSid
  /\ Len(chunks) < MaxChunks
  /\ LET c == Len(chunks) + 1
         has == activeCallSid \in sessions
     IN /\ session' = IF has THEN handleTwilioMedia(session, c) ELSE session
        /\ chunks' = Append(chunks,
             [fate |-> IF has THEN MediaFate(session) ELSE "nosession",
              ws |-> session.deepgramWs,
              deepgramReady |-> session.deepgramReady,
              settingsSent |-> session.settingsSent])
  /\ UNCHANGED <<twilioWs, activeCallSid, sessions, handlers, agentMsgs, stops, dbVars>>
  /\ UNCHANGED auxVars

\* ws.on('message'), event stop: handleTwilioEvent(stop), close(), delete,
\* then the awaits of the handler.
CarrierStop ==
  /\ twilioWs = "open" /\ activeCallSid # NoCallSid
  /\ stops < MaxStops
  /\ stops' = stops + 1
  /\ session' = IF activeCallSid \in sessions THEN close(handleTwilioStop(session))
                ELSE session
  /\ sessions' = sessions \ {activeCallSid}
  /\ handlers' = Append(handlers, Handler("stop", "upsertCall", NoEvt))
  /\ UNCHANGED <<twilioWs, activeCallSid, chunks, agentMsgs, dbVars>>
  /\ UNCHANGED auxVars

CarrierClose_KeepsEntry ==
  /\ twilioWs = "open"
  /\ twilioWs' = "closed"
  /\ IF activeCallSid = NoCallSid
     THEN UNCHANGED <<session, sessions, handlers>>
     ELSE /\ session' = IF activeCallSid \in sessions THEN close(session) ELSE session
          /\ sessions' = sessions
          /\ handlers' = Append(handlers, Handler("close", "upsertCall", NoEvt))
  /\ UNCHANGED <<activeCallSid, chunks, agentMsgs, stops, dbVars>>
  /\ UNCHANGED auxVars

\* ws.on('close')
CarrierClose ==
  /\ twilioWs = "open"
  /\ twilioWs' = "closed"
  /\ IF activeCallSid = NoCallSid
     THEN UNCHANGED <<session, sessions, handlers>>
     ELSE /\ session' = IF activeCallSid \in sessions THEN close(session) ELSE session
          /\ sessions' = sessions \ {activeCallSid}
          /\ handlers' = Append(handlers, Handler("close", "upsertCall", NoEvt))
  /\ UNCHANGED <<activeCallSid, chunks, agentMsgs, stops, dbVars>>
  /\ UNCHANGED auxVars

(* ----------------------- agent socket handlers ------------------------ *)

\* deepgramWs.on('open')
AgentOpen ==
  /\ session.deepgramWs = "CONNECTING"
  /\ session' = [session EXCEPT !.deepgramWs = "OPEN"]
  /\ UNCHANGED <<twilioWs, activeCallSid, sessions, handlers, chunks, agentMsgs, stops, dbVars>>
  /\ UNCHANGED auxVars

AgentClosed_TearsDown ==
  /\ session.deepgramWs \in {"CONNECTING", "OPEN", "CLOSING"}
  /\ session' = [session EXCEPT !.deepgramWs = "CLOSED"]
  /\ sessions' = sessions \ {activeCallSid}
  /\ UNCHANGED <<twilioWs, activeCallSid, handlers, chunks, agentMsgs, stops, dbVars>>
  /\ UNCHANGED auxVars

\* deepgramWs.on('close') / on('error'): the socket is gone, the handlers log.
AgentClosed ==
  /\ session.deepgramWs \in {"CONNECTING", "OPEN", "CLOSING"}
  /\ session' = [session EXCEPT !.deepgramWs = "CLOSED"]
  /\ UNCHANGED <<twilioWs, activeCallSid, sessions, handlers, chunks, agentMsgs, stops, dbVars>>
  /\ UNCHANGED auxVars

\* A text message is delivered while the socket is open, and after close()
\* until the peer's close frame arrives.
AgentDelivers ==
  /\ session.deepgramWs \in {"OPEN", "CLOSING"}
  /\ agentMsgs < MaxAgentMsgs
  /\ agentMsgs' = agentMsgs + 1

\* deepgramWs.on('message'), kind Welcome, up to the await of the menu.
AgentWelcome ==
  /\ AgentDelivers
  /\ session' = welcomeBegin(session)
  /\ handlers' = Append(handlers,
       Handler("agent", "menu", Evt("Welcome", "", {}, "", Absent)))
  /\ UNCHANGED <<twilioWs, activeCallSid, sessions, chunks, stops, dbVars>>
  /\ UNCHANGED auxVars

\* deepgramWs.on('message'), kind SettingsApplied, up to await insertEvent.
AgentSettingsApplied ==
  /\ AgentDelivers
  /\ session' = settingsApplied(session)
  /\ handlers' = Append(handlers,
       Handler("agent", "event", Evt("SettingsApplied", "", {}, "", Absent)))
  /\ UNCHANGED <<twilioWs, activeCallSid, sessions, chunks, stops, dbVars>>
  /\ UNCHANGED auxVars

\* deepgramWs.on('message'), kind UserStartedSpeaking, up to await
\* insertEvent: the clear frame goes to the carrier socket.
AgentUserStartedSpeaking ==
  /\ AgentDelivers
  /\ session' = bargeIn(session, twilioWs)
  /\ handlers' = Append(handlers,
       Handler("agent", "event", Evt("UserStartedSpeaking", "", {}, "", Absent)))
  /\ UNCHANGED <<twilioWs, activeCallSid, sessions, chunks, stops, dbVars>>
  /\ UNCHANGED auxVars

\* deepgramWs.on('message'), a binary message: the handler returns after the
\* send.
AgentAudio ==
  /\ AgentDelivers
  /\ session' = agentAudio(session, twilioWs, AudioBytes)
  /\ UNCHANGED <<twilioWs, activeCallSid, sessions, handlers, chunks, stops, dbVars>>
  /\ UNCHANGED auxVars

\* The binary frames drawn: empty, one and two bytes (padded), three
\* bytes, and more than one group.
BinaryFrames == {<<>>, <<0>>, <<255>>, <<77, 97>>, <<77, 97, 110>>, <<0, 0, 1, 255>>}

\* deepgramWs.on('message'), a binary message of any content.
AgentBinary ==
  /\ session.deepgramWs \in {"OPEN", "CLOSING"}
  /\ Len(session.agentIn) < MaxBinaryFrames
  /\ agentMsgs' = agentMsgs + 1
  /\ \E raw \in BinaryFrames : session' = agentAudio(session, twilioWs, raw)
  /\ UNCHANGED <<twilioWs, activeCallSid, sessions, handlers, chunks, stops, dbVars>>
  /\ UNCHANGED auxVars

\* deepgramWs.on('message'), a message with conversational text, up to
\* await insertMessage.
ConversationText(texts, limit) ==
  /\ session.deepgramWs \in {"OPEN", "CLOSING"}
  /\ session.transcriptTurns < limit
  /\ \E role \in TranscriptRoles, text \in texts :
       handlers' = Append(handlers,
         Handler("agent", "message", Evt("ConversationText", role, text, "", Absent)))
  /\ session' = [session EXCEPT !.transcriptTurns = @ + 1]
  /\ UNCHANGED <<twilioWs, activeCallSid, sessions, chunks, agentMsgs, stops, dbVars>>
  /\ UNCHANGED auxVars

AgentConversationText == ConversationText(TranscriptTexts, MaxTranscripts)

\* The text of the n-th transcript-bearing message of a call.
TurnText(n) == {"turn" \o ToString(n)}

\* As AgentConversationText, with the text telling the arrival order.
AgentTurn == ConversationText({TurnText(session.transcriptTurns + 1)}, MaxTurns)

\* isLifecycleEvent: the kinds whose text is never a turn of the transcript
\* (compared in lower case in the code).
LifecycleKinds ==
  {"Welcome", "SettingsApplied", "Metadata", "KeepAlive", "UserStartedSpeaking",
   "AgentAudioDone", "AgentStartedSpeaking", "AgentThinking", "Error", "Warning"}

\* value.trim().length > 0 of a candidate: a string with a character that
\* is no space.
NonBlank(c) == c.has /\ \E i \in 1..Len(c.v) : c.v[i] # " "

\* extractTranscript: the first of the candidates (text, transcript, the
\* message's content or text, content, response) that is a non-blank
\* string, as the set of its words; {} for null.
extractTranscript(candidates) ==
  LET found == {i \in 1..Len(candidates) : NonBlank(candidates[i])} IN
  IF found = {} THEN {}
  ELSE LET first == CHOOSE i \in found : \A j \in found : i <= j
       IN {candidates[first].v[n] : n \in 1..Len(candidates[first].v)} \ {" "}

observesTranscript_AnyKind(kind, transcript) == transcript # {}

\* `if (transcript && !isLifecycleEvent)`
observesTranscript(kind, transcript) == transcript # {} /\ kind \notin LifecycleKinds

\* lowered.includes(word) of an event kind, the kind by its words
\* ("ConversationText" is the words Conversation, Text).
includes(lowered, word) == \E i \in 1..Len(lowered) : lowered[i] = Lower(word)

inferRole_KindFirst(role, kind) ==
  LET lowered == toLowerCase(kind)
      named == IF role.has THEN toLowerCase(role.v) ELSE <<>>
  IN IF includes(lowered, "assistant") \/ includes(lowered, "agent") THEN "assistant"
     ELSE IF includes(lowered, "user") \/ includes(lowered, "caller") THEN "user"
     ELSE IF named \in {<<Lower("assistant")>>, <<Lower("agent")>>} THEN "assistant"
     ELSE IF named \in {<<Lower("user")>>, <<Lower("caller")>>, <<Lower("customer")>>}
          THEN "user"
     ELSE "system"

\* inferRole: evt.role in lower case decides when it is one of the known
\* names (an absent role is undefined and equals none of them); otherwise
\* the words of the kind in lower case; otherwise system.
inferRole(role, kind) ==
  LET lowered == toLowerCase(kind)
      named == IF role.has THEN toLowerCase(role.v) ELSE <<>>
  IN IF named \in {<<Lower("assistant")>>, <<Lower("agent")>>} THEN "assistant"
     ELSE IF named \in {<<Lower("user")>>, <<Lower("caller")>>, <<Lower("customer")>>}
          THEN "user"
     ELSE IF includes(lowered, "assistant") \/ includes(lowered, "agent") THEN "assistant"
     ELSE IF includes(lowered, "user") \/ includes(lowered, "caller") THEN "user"
     ELSE "system"

\* The transcript branch infers the role of the turn from the message.
InferRole ==
  /\ ~extraction.done
  /\ extraction' = [extraction EXCEPT !.done = TRUE,
                                      !.inferredRole = inferRole(extraction.role, extraction.kind)]
  /\ UNCHANGED <<bridgeVars, handlers, dbVars, priorCall, outage, reconcilerRuns, peerVars,
                 unparsable, unhandled, replaced>>

\* The values of a candidate field of a message: absent, empty, blank, text.
CandidateValues == {Absent, Str(<<>>), Str(<<" ">>), Str(<<"hello">>), Str(<<"order">>)}

\* The candidates of the messages drawn: the fields text and content, the
\* fields transcript, message and response absent.
CandidateLists ==
  {<<text, Absent, Absent, content, Absent>> :
     text \in CandidateValues, content \in CandidateValues}

\* The kinds of the messages drawn that have no branch of their own: a
\* conversational message and two lifecycle messages.
ObservedKinds == {"ConversationText", "Metadata", "Error"}

\* deepgramWs.on('message'), a message of a kind without a branch of its
\* own, with any candidates for its text: the turn is counted and the
\* handler awaits insertMessage, or the handler goes on to await insertEvent.
AgentMessage ==
  /\ AgentDelivers
  /\ \E kind \in ObservedKinds, role \in TranscriptRoles, candidates \in CandidateLists :
       LET transcript == extractTranscript(candidates)
           observed == observesTranscript(kind, transcript)
       IN /\ session' = IF observed THEN [session EXCEPT !.transcriptTurns = @ + 1]
                         ELSE session
          /\ handlers' = Append(handlers,
               Handler("agent", IF observed THEN "message" ELSE "event",
                       Evt(kind, role, transcript, "", Absent)))
  /\ UNCHANGED <<twilioWs, activeCallSid, sessions, chunks, stops, dbVars>>
  /\ UNCHANGED auxVars

\* handleToolEvent up to its first await: a payload the schema rejects
\* returns, and the message handler goes on to await insertEvent.
toolAccepted(evt) ==
  \/ evt.name = "create_order" /\ orderToolSchema(evt)
  \/ evt.name = "create_reservation" /\ reservationToolSchema(evt)

\* deepgramWs.on('message'), kind FunctionCallRequest.
AgentFunctionCall ==
  /\ AgentDelivers
  /\ \E name \in ToolNames, argName \in ArgNames :
       LET evt == Evt("FunctionCallRequest", "", {}, name, argName) IN
       handlers' = Append(handlers,
         Handler("agent", IF toolAccepted(evt) THEN "tool_event" ELSE "event", evt))
  /\ UNCHANGED <<twilioWs, activeCallSid, sessions, session, chunks, stops, dbVars>>
  /\ UNCHANGED auxVars

(* ------------------- persistence calls of the handlers ---------------- *)

\* The outcome of an insert into orders or reservations: it succeeds, or it
\* fails while failures remain.
WriteOutcomes == {TRUE} \cup (IF dbFailures < MaxDbFailures THEN {FALSE} ELSE {})

Failed(ok) == dbFailures' = IF ok THEN dbFailures ELSE dbFailures + 1

\* insertEvent / insertMessage: a missing call row is created in_progress.
ensureCallRow(row) ==
  IF row.exists THEN row
  ELSE upsertCall(row, "in_progress", "undefined", "undefined", "undefined")

insertEvent(events, eventType) == [events EXCEPT ![eventType] = @ + 1]

toolNotes_NoTag(sid) == <<>>

\* notes of a tool-call order or reservation: `${payload.notes ?? ''} ${tag}`.trim()
toolNotes(sid) == <<Tag(sid)>>

\* notes of a materialized order or reservation: the summary sentences, then
\* `${tag} auto-captured from transcript`.
summaryNotes(sid) == <<Word("summary"), Tag(sid), Word("auto-captured from transcript")>>

OrderRow(name, notes) == [customer_name |-> name, notes |-> notes]

materializesOrder_IgnoresExisting(structured, existingOrder) == structured.order

\* materializeFromStructuredOutput: the two conditions of the inserts.
materializesOrder(structured, existingOrder) == structured.order /\ ~existingOrder
materializesReservation(structured, existingReservation) ==
  structured.reservation /\ ~existingReservation

(* ------------------------ agent handler steps ------------------------- *)

\* Welcome, after `await buildMenuGuardPrompt()` (a failed fetch yields the
\* fallback text): Settings is sent, then the handler awaits insertEvent.
ResumeWelcome(i) ==
  /\ handlers[i].kind = "agent" /\ handlers[i].pc = "menu"
  /\ session' = welcomeResume(session)
  /\ handlers' = Goto(i, "event")
  /\ UNCHANGED <<twilioWs, activeCallSid, sessions, chunks, agentMsgs, stops, dbVars>>
  /\ UNCHANGED auxVars

\* As ResumeWelcome, with every outcome of the fetch of the menu.
ResumeWelcomeAnyMenu(i) ==
  /\ handlers[i].kind = "agent" /\ handlers[i].pc = "menu"
  /\ \E fetch \in MenuFetches : session' = welcomeResumeWith(session, menuPrompt(fetch))
  /\ handlers' = Goto(i, "event")
  /\ UNCHANGED <<twilioWs, activeCallSid, sessions, chunks, agentMsgs, stops, dbVars>>
  /\ UNCHANGED auxVars

\* The tables whose writes an outage of the database can fail.
Tables == {"call_messages", "call_events"}

afterWrite_Propagates(i, ok, pc) == IF ok THEN Goto(i, pc) ELSE Done(i)

\* `.catch(...)` on the promise of a write: the handler goes on to pc
\* whether the write succeeded or was rejected.
afterWrite(i, ok, pc) == Goto(i, pc)

\* `await insertMessage(...)` with its then/catch.
ResumeInsertMessage(i) ==
  /\ handlers[i].kind = "agent" /\ handlers[i].pc = "message"
  /\ callRow' = ensureCallRow(callRow)
  /\ LET ok == "call_messages" \notin outage IN
     /\ callMessages' = IF ok
          THEN Append(callMessages,
                 [role |-> handlers[i].evt.role, text |-> handlers[i].evt.text])
          ELSE callMessages
     /\ handlers' = afterWrite(i, ok, "event")
  /\ UNCHANGED <<bridgeVars, callEvents, structuredOutput, orders, reservations,
                 dbFailures>>
  /\ UNCHANGED auxVars

\* handleToolEvent: `await insertEvent(structured_output)`.
ResumeToolEvent(i) ==
  /\ handlers[i].kind = "agent" /\ handlers[i].pc = "tool_event"
  /\ callRow' = ensureCallRow(callRow)
  /\ callEvents' = IF "call_events" \in outage THEN callEvents
                   ELSE insertEvent(callEvents, "structured_output.model_tool")
  /\ handlers' = Goto(i, "tool_create")
  /\ UNCHANGED <<bridgeVars, callMessages, structuredOutput, orders, reservations,
                 dbFailures>>
  /\ UNCHANGED auxVars

\* handleToolEvent: `await createOrder(...)` / `await createReservation(...)`
\* with its catch; the notes carry the tag of the session's call identifier.
ResumeToolCreate(i) ==
  /\ handlers[i].kind = "agent" /\ handlers[i].pc = "tool_create"
  /\ \E ok \in WriteOutcomes :
       /\ Failed(ok)
       /\ LET row == OrderRow(handlers[i].evt.argName.v, toolNotes(CallSid)) IN
          IF handlers[i].evt.name = "create_order"
          THEN /\ orders' = IF ok THEN Append(orders, row) ELSE orders
               /\ UNCHANGED reservations
          ELSE /\ reservations' = IF ok THEN Append(reservations, row) ELSE reservations
               /\ UNCHANGED orders
  /\ handlers' = Goto(i, "event")
  /\ UNCHANGED <<bridgeVars, callRow, callMessages, callEvents, structuredOutput>>
  /\ UNCHANGED auxVars

\* The last await of the message handler, and the await of the start
\* handler: insertEvent with its catch. The handler ends.
ResumeInsertEvent(i) ==
  /\ handlers[i].pc = "event"
  /\ callRow' = ensureCallRow(callRow)
  /\ callEvents' = IF "call_events" \in outage THEN callEvents
       ELSE insertEvent(callEvents,
              IF handlers[i].kind = "agent" THEN "deepgram." \o handlers[i].evt.kind
              ELSE "twilio.start")
  /\ handlers' = Done(i)
  /\ UNCHANGED <<bridgeVars, callMessages, structuredOutput, orders, reservations,
                 dbFailures>>
  /\ UNCHANGED auxVars

\* insertMessage / insertEvent taken apart at their awaits. The select of
\* the call row found none: the handler goes on to `await upsertCall(...)`.
ResumeSelectCallRow(i) ==
  /\ handlers[i].pc \in {"message", "event"} /\ ~callRow.exists
  /\ handlers' = Goto(i, handlers[i].pc \o "_row")
  /\ UNCHANGED <<bridgeVars, dbVars>>
  /\ UNCHANGED auxVars

\* `await upsertCall({twilioCallSid, status: 'in_progress'})` of the
\* fallback, whatever the row has become since the select; the select is
\* tried again next and finds the row.
ResumeFallbackRow(i) ==
  /\ handlers[i].pc \in {"message_row", "event_row"}
  /\ callRow' = upsertCall(callRow, "in_progress", "undefined", "undefined", "undefined")
  /\ handlers' = Goto(i, IF handlers[i].pc = "message_row" THEN "message" ELSE "event")
  /\ UNCHANGED <<bridgeVars, callMessages, callEvents, structuredOutput, orders,
                 reservations, dbFailures>>
  /\ UNCHANGED auxVars

(* ------------------ stop / close handler steps ------------------------ *)

Teardown(i) == handlers[i].kind \in {"stop", "close"}

\* `await upsertCall({status: 'completed', endedAt})` with its catch.
ResumeUpsertCall(i) ==
  /\ Teardown(i) /\ handlers[i].pc = "upsertCall"
  /\ callRow' = upsertCall(callRow, "completed", "undefined", "undefined", "t")
  /\ handlers' = Goto(i, "fb_call")
  /\ UNCHANGED <<bridgeVars, callMessages, callEvents, structuredOutput, orders,
                 reservations, dbFailures>>
  /\ UNCHANGED auxVars

\* upsertCall when its select of the existing row returns an error: the
\* error is not read (`const { data: existing } = await ...`), `existing`
\* is null and the payload carries null for every field the caller left
\* out; the upsert then writes the payload's columns over the row.
upsertCallUnread(row, status, fromNumber, startedAt, endedAt) ==
  [upsertCall(NoCallRow, status, fromNumber, startedAt, endedAt)
     EXCEPT !.summary = row.summary,
            !.created_at = IF row.exists THEN row.created_at ELSE "recent"]

\* `await upsertCall({status: 'completed', endedAt})` of a stop or close
\* handler whose select fails and whose upsert succeeds.
ResumeUpsertCallUnread(i) ==
  /\ Teardown(i) /\ handlers[i].pc = "upsertCall"
  /\ dbFailures < MaxDbFailures
  /\ dbFailures' = dbFailures + 1
  /\ callRow' = upsertCallUnread(callRow, "completed", "undefined", "undefined", "t")
  /\ handlers' = Goto(i, "fb_call")
  /\ UNCHANGED <<bridgeVars, callMessages, callEvents, structuredOutput, orders,
                 reservations>>
  /\ UNCHANGED auxVars

\* persistFallbackOrderAndReservationFromCall: select of the call row.
ResumeFallbackCall(i) ==
  /\ Teardown(i) /\ handlers[i].pc = "fb_call"
  /\ handlers' = IF ~callRow.exists THEN Done(i)
                 ELSE [handlers EXCEPT ![i].pc = "fb_messages", ![i].callRow = callRow]
  /\ UNCHANGED <<bridgeVars, dbVars>>
  /\ UNCHANGED auxVars

\* select of the transcript rows; `if (!transcript.trim()) return`.
ResumeFallbackMessages(i) ==
  /\ Teardown(i) /\ handlers[i].pc = "fb_messages"
  /\ handlers' = IF callMessages = <<>> THEN Done(i)
                 ELSE [handlers EXCEPT ![i].pc = "fb_structured", ![i].rows = callMessages]
  /\ UNCHANGED <<bridgeVars, dbVars>>
  /\ UNCHANGED auxVars

\* getStructuredOutputByCallSid; without a stored payload the menu is read
\* and buildStructuredCallOutcome runs.
ResumeFallbackStructured(i) ==
  /\ Teardown(i) /\ handlers[i].pc = "fb_structured"
  /\ handlers' = IF structuredOutput.has
       THEN [handlers EXCEPT ![i].pc = "mat_existingOrder", ![i].structured = structuredOutput]
       ELSE [handlers EXCEPT ![i].pc = "fb_upsert",
                             ![i].structured = buildStructuredCallOutcome(handlers[i].rows)]
  /\ UNCHANGED <<bridgeVars, dbVars>>
  /\ UNCHANGED auxVars

\* `await upsertStructuredOutput(...)` with its catch.
ResumeFallbackUpsert(i) ==
  /\ Teardown(i) /\ handlers[i].pc = "fb_upsert"
  /\ structuredOutput' = handlers[i].structured
  /\ handlers' = Goto(i, "fb_event")
  /\ UNCHANGED <<bridgeVars, callRow, callMessages, callEvents, orders, reservations,
                 dbFailures>>
  /\ UNCHANGED auxVars

\* `await insertEvent(structured_output)` with its catch.
ResumeFallbackEvent(i) ==
  /\ Teardown(i) /\ handlers[i].pc = "fb_event"
  /\ callRow' = ensureCallRow(callRow)
  /\ callEvents' = insertEvent(callEvents, "structured_output.transcript_fallback")
  /\ handlers' = Goto(i, "mat_existingOrder")
  /\ UNCHANGED <<bridgeVars, callMessages, structuredOutput, orders, reservations,
                 dbFailures>>
  /\ UNCHANGED auxVars

\* materializeFromStructuredOutput: select of an order tagged with the call.
ResumeExistingOrder(i) ==
  /\ Teardown(i) /\ handlers[i].pc = "mat_existingOrder"
  /\ handlers' = [handlers EXCEPT ![i].pc = "mat_existingReservation",
                    ![i].existingOrder = (TaggedRows(orders, CallSid) # {})]
  /\ UNCHANGED <<bridgeVars, dbVars>>
  /\ UNCHANGED auxVars

\* materializeFromStructuredOutput: select of a tagged reservation.
ResumeExistingReservation(i) ==
  /\ Teardown(i) /\ handlers[i].pc = "mat_existingReservation"
  /\ handlers' = [handlers EXCEPT ![i].pc = "mat_order",
                    ![i].existingReservation = (TaggedRows(reservations, CallSid) # {})]
  /\ UNCHANGED <<bridgeVars, dbVars>>
  /\ UNCHANGED auxVars

\* materializeFromStructuredOutput: the order insert. A failed insert throws
\* out of persistFallbackOrderAndReservationFromCall into the handler's catch.
ResumeMaterializeOrder(i) ==
  /\ Teardown(i) /\ handlers[i].pc = "mat_order"
  /\ IF materializesOrder(handlers[i].structured, handlers[i].existingOrder)
     THEN \E ok \in WriteOutcomes :
            /\ Failed(ok)
            /\ orders' = IF ok
                 THEN Append(orders, OrderRow(<<"C">>, summaryNotes(CallSid)))
                 ELSE orders
            /\ handlers' = IF ok THEN Goto(i, "mat_reservation") ELSE Done(i)
     ELSE /\ handlers' = Goto(i, "mat_reservation")
          /\ UNCHANGED <<orders, dbFailures>>
  /\ UNCHANGED <<bridgeVars, callRow, callMessages, callEvents, structuredOutput,
                 reservations>>
  /\ UNCHANGED auxVars

\* materializeFromStructuredOutput: the reservation insert.
ResumeMaterializeReservation(i) ==
  /\ Teardown(i) /\ handlers[i].pc = "mat_reservation"
  /\ IF materializesReservation(handlers[i].structured, handlers[i].existingReservation)
     THEN \E ok \in WriteOutcomes :
            /\ Failed(ok)
            /\ reservations' = IF ok
                 THEN Append(reservations, OrderRow(<<"C">>, summaryNotes(CallSid)))
                 ELSE reservations
            /\ handlers' = IF ok THEN Goto(i, "summary") ELSE Done(i)
     ELSE /\ handlers' = Goto(i, "summary")
          /\ UNCHANGED <<reservations, dbFailures>>
  /\ UNCHANGED <<bridgeVars, callRow, callMessages, callEvents, structuredOutput, orders>>
  /\ UNCHANGED auxVars

\* update of the call's summary; the handler ends.
ResumeSummary(i) ==
  /\ Teardown(i) /\ handlers[i].pc = "summary"
  /\ callRow' = IF callRow.exists THEN [callRow EXCEPT !.summary = TRUE] ELSE callRow
  /\ handlers' = Done(i)
  /\ UNCHANGED <<bridgeVars, callMessages, callEvents, structuredOutput, orders,
                 reservations, dbFailures>>
  /\ UNCHANGED auxVars

(* ------------------- handlers of two carrier sockets ------------------ *)

\* ws.on('message'), event start, on carrier socket c.
PeerStart(c) ==
  /\ peers[c].ws = "open" /\ peers[c].activeCallSid = NoCallSid
  /\ peers' = [peers EXCEPT ![c].activeCallSid = PeerSid(c),
                             ![c].session = connect(NewSession)]
  /\ registry' = [registry EXCEPT ![PeerSid(c)] = c]
  /\ peerHandlers' = Append(peerHandlers, PeerHandler(c, "event"))
  /\ UNCHANGED peerCalls

\* ws.on('message'), event media, on carrier socket c: the chunk carries
\* the number of its socket.
PeerMedia(c) ==
  /\ peers[c].ws = "open" /\ peers[c].activeCallSid # NoCallSid
  /\ peers[c].media < MaxPeerChunks
  /\ peers' = [WithSession(Target(c), handleTwilioMedia(SessionAt(Target(c)), c))
                 EXCEPT ![c].media = @ + 1]
  /\ UNCHANGED <<registry, peerHandlers, peerCalls>>

\* ws.on('message'), event stop, on carrier socket c.
PeerStop(c) ==
  /\ peers[c].ws = "open" /\ peers[c].activeCallSid # NoCallSid
  /\ peers[c].stops < MaxStops
  /\ peers' = [WithSession(Target(c), close(handleTwilioStop(SessionAt(Target(c)))))
                 EXCEPT ![c].stops = @ + 1]
  /\ registry' = [registry EXCEPT ![peers[c].activeCallSid] = 0]
  /\ peerHandlers' = Append(peerHandlers, PeerHandler(c, "upsertCall"))
  /\ UNCHANGED peerCalls

\* ws.on('close') of carrier socket c.
PeerClose(c) ==
  /\ peers[c].ws = "open"
  /\ IF peers[c].activeCallSid = NoCallSid
     THEN /\ peers' = [peers EXCEPT ![c].ws = "closed"]
          /\ UNCHANGED <<registry, peerHandlers>>
     ELSE /\ peers' = [WithSession(Target(c), close(SessionAt(Target(c))))
                        EXCEPT ![c].ws = "closed"]
          /\ registry' = [registry EXCEPT ![peers[c].activeCallSid] = 0]
          /\ peerHandlers' = Append(peerHandlers, PeerHandler(c, "upsertCall"))
  /\ UNCHANGED peerCalls

\* deepgramWs.on('open') of the session of carrier socket c.
PeerAgentOpen(c) ==
  /\ peers[c].session.deepgramWs = "CONNECTING"
  /\ peers' = [peers EXCEPT ![c].session.deepgramWs = "OPEN"]
  /\ UNCHANGED <<registry, peerHandlers, peerCalls>>

PeerAgentDelivers(c) ==
  /\ peers[c].session.deepgramWs \in {"OPEN", "CLOSING"}
  /\ peers[c].agentMsgs < MaxAgentMsgs

\* deepgramWs.on('message') of that session, kind Welcome, up to the await.
PeerAgentWelcome(c) ==
  /\ PeerAgentDelivers(c)
  /\ peers' = [peers EXCEPT ![c].session = welcomeBegin(@), ![c].agentMsgs = @ + 1]
  /\ peerHandlers' = Append(peerHandlers, PeerHandler(c, "menu"))
  /\ UNCHANGED <<registry, peerCalls>>

\* deepgramWs.on('message') of that session, kind SettingsApplied.
PeerAgentSettingsApplied(c) ==
  /\ PeerAgentDelivers(c)
  /\ peers' = [peers EXCEPT ![c].session = settingsApplied(@), ![c].agentMsgs = @ + 1]
  /\ peerHandlers' = Append(peerHandlers, PeerHandler(c, "event"))
  /\ UNCHANGED <<registry, peerCalls>>

PeerDone(i) ==
  SubSeq(peerHandlers, 1, i - 1) \o SubSeq(peerHandlers, i + 1, Len(peerHandlers))

\* Welcome after the await of the menu: Settings is sent by the handler's
\* own session.
PeerResumeWelcome(i) ==
  /\ peerHandlers[i].pc = "menu"
  /\ peers' = [peers EXCEPT ![peerHandlers[i].c].session = welcomeResume(@)]
  /\ peerHandlers' = [peerHandlers EXCEPT ![i].pc = "event"]
  /\ UNCHANGED <<registry, peerCalls>>

\* `await insertEvent(...)` of a start or agent message handler: a missing
\* call row is created in_progress. The handler ends.
PeerResumeInsertEvent(i) ==
  /\ peerHandlers[i].pc = "event"
  /\ peerCalls' = [peerCalls EXCEPT ![peerHandlers[i].sid] =
                     IF @ = "none" THEN "in_progress" ELSE @]
  /\ peerHandlers' = PeerDone(i)
  /\ UNCHANGED <<peers, registry>>

\* `await upsertCall({status: 'completed'})` of a stop or close handler; the
\* fallback that follows reads an empty transcript and returns.
PeerResumeUpsertCall(i) ==
  /\ peerHandlers[i].pc = "upsertCall"
  /\ peerCalls' = [peerCalls EXCEPT ![peerHandlers[i].sid] = "completed"]
  /\ peerHandlers' = PeerDone(i)
  /\ UNCHANGED <<peers, registry>>

(* ----------------------- Stale-Call Reconciler ------------------------ *)

\* The rows of table calls the model holds have the ids "prior" and CallSid.
PriorId == "prior"

\* The threshold (staleAfterMinutes) passes: the rows there are now are
\* older than the cutoff of every later reconciler run.
MinutesPass ==
  /\ callRow.created_at = "recent" \/ priorCall.created_at = "recent"
  /\ callRow' = IF callRow.exists THEN [callRow EXCEPT !.created_at = "old"] ELSE callRow
  /\ priorCall' = IF priorCall.exists THEN [priorCall EXCEPT !.created_at = "old"]
                  ELSE priorCall
  /\ UNCHANGED <<bridgeVars, handlers, callMessages, callEvents, structuredOutput,
                 orders, reservations, dbFailures, outage, reconcilerRuns, peerVars,
                 processVars, extraction, replaced>>

\* .lt('created_at', cutoff): the cutoff is fixed when the run starts.
olderThanCutoff(row) == row.exists /\ row.created_at = "old"

selectStale_AnyAge(row, older) == row.exists /\ row.status = "in_progress"

\* .eq('status', 'in_progress').lt('created_at', cutoff)
selectStale(row, older) == older /\ row.exists /\ row.status = "in_progress"

\* The ids of the rows older than the cutoff of a run that starts now.
OlderRows ==
  (IF olderThanCutoff(priorCall) THEN <<PriorId>> ELSE <<>>)
  \o (IF olderThanCutoff(callRow) THEN <<CallSid>> ELSE <<>>)

\* reconcileStaleInProgressCalls at startup and on every interval tick, up
\* to the await of the select: the cutoff is computed.
ReconcilerStart ==
  /\ reconcilerRuns < MaxReconcilerRuns
  /\ reconcilerRuns' = reconcilerRuns + 1
  /\ handlers' = Append(handlers,
       [Handler("reconciler", "select", NoEvt) EXCEPT !.rows = OlderRows])
  /\ UNCHANGED <<bridgeVars, dbVars, priorCall, outage, peerVars, processVars, extraction, replaced>>

\* The select: staleRows; `if (... staleRows.length === 0) return 0`.
ResumeReconcilerSelect(i) ==
  /\ handlers[i].kind = "reconciler" /\ handlers[i].pc = "select"
  /\ LET older == handlers[i].rows
         staleRows ==
           (IF selectStale(priorCall, InSeq(PriorId, older)) THEN <<PriorId>> ELSE <<>>)
           \o (IF selectStale(callRow, InSeq(CallSid, older)) THEN <<CallSid>> ELSE <<>>)
     IN handlers' = IF staleRows = <<>> THEN Done(i)
                    ELSE [handlers EXCEPT ![i].pc = "update", ![i].rows = staleRows]
  /\ UNCHANGED <<bridgeVars, dbVars, auxVars>>

reconcileRow_KeepsStatus(row, ids, id) ==
  IF InSeq(id, ids) THEN [row EXCEPT !.ended_at = "r"] ELSE row

\* update({status: 'completed', ended_at: now}).in('id', staleRows ids): the
\* timestamp of a reconciler's update is "r", that of a handler's upsert "t".
reconcileRow(row, ids, id) ==
  IF InSeq(id, ids) THEN [row EXCEPT !.status = "completed", !.ended_at = "r"] ELSE row

ResumeReconcilerUpdate(i) ==
  /\ handlers[i].kind = "reconciler" /\ handlers[i].pc = "update"
  /\ callRow' = reconcileRow(callRow, handlers[i].rows, CallSid)
  /\ priorCall' = reconcileRow(priorCall, handlers[i].rows, PriorId)
  /\ handlers' = Done(i)
  /\ UNCHANGED <<bridgeVars, callMessages, callEvents, structuredOutput, orders,
                 reservations, dbFailures, outage, reconcilerRuns, peerVars, processVars, extraction, replaced>>

\* The runs of the reconciler that have started and not ended.
RunsInFlight == {i \in 1..Len(handlers) : handlers[i].kind = "reconciler"}

\* A tick of setInterval(..., 60_000), which never stops: as ReconcilerStart,
\* with the runs counted up to the bound and a tick starting a run while
\* fewer than the bound are in flight.
ReconcilerTick ==
  /\ Cardinality(RunsInFlight) < MaxReconcilerRuns
  /\ reconcilerRuns' = IF reconcilerRuns < MaxReconcilerRuns THEN reconcilerRuns + 1
                        ELSE reconcilerRuns
  /\ handlers' = Append(handlers,
       [Handler("reconciler", "select", NoEvt) EXCEPT !.rows = OlderRows])
  /\ UNCHANGED <<bridgeVars, dbVars, priorCall, outage, peerVars, processVars, extraction, replaced>>

\* A query of a run fails while failures remain: an error of the select
\* returns 0, an error of the update is thrown and caught by the .catch of
\* the caller in server.listen. The run ends and no row is changed.
ResumeReconcilerFails(i) ==
  /\ handlers[i].kind = "reconciler" /\ handlers[i].pc \in {"select", "update"}
  /\ dbFailures < MaxDbFailures
  /\ dbFailures' = dbFailures + 1
  /\ handlers' = Done(i)
  /\ UNCHANGED <<bridgeVars, callRow, callMessages, callEvents, structuredOutput, orders,
                 reservations, auxVars>>

(* ------------------------- unparsable frames -------------------------- *)

\* ws.on('message') of the carrier socket with a frame that is not JSON:
\* JSON.parse is the first statement of the async handler, outside any try,
\* so the handler's promise is rejected, and nothing awaits or catches it.
CarrierUnparsable ==
  /\ twilioWs = "open"
  /\ unparsable["carrier"] < MaxUnparsable
  /\ unparsable' = [unparsable EXCEPT !["carrier"] = @ + 1]
  /\ unhandled' = unhandled + 1
  /\ UNCHANGED <<bridgeVars, handlers, dbVars, priorCall, outage, reconcilerRuns, peerVars,
                 extraction, replaced>>

discard_CountsTurn(s) == [s EXCEPT !.transcriptTurns = @ + 1]

\* The catch of JSON.parse in the agent message handler: the text is logged
\* and the handler returns.
discard(s) == s

\* deepgramWs.on('message') with a text frame that is not JSON.
AgentUnparsable ==
  /\ session.deepgramWs \in {"OPEN", "CLOSING"}
  /\ unparsable["agent"] < MaxUnparsable
  /\ unparsable' = [unparsable EXCEPT !["agent"] = @ + 1]
  /\ session' = discard(session)
  /\ UNCHANGED <<twilioWs, activeCallSid, sessions, handlers, chunks, agentMsgs, stops,
                 dbVars, priorCall, outage, reconcilerRuns, peerVars, unhandled, extraction, replaced>>

(* --------------------------- specification ---------------------------- *)

(* Spec: the bridge. The carrier events and the agent's handshake        *)
(* messages. A persistence await of a handler touches only the tables and *)
(* the handler's own entry, and a socket event touches only the sockets   *)
(* and the session and appends an entry: the two commute, so the          *)
(* behaviours of the sockets and the session are all kept when a          *)
(* persistence await is resumed before the next socket event (Settled).   *)
(* The await of the menu in the Welcome branch is followed by code that   *)
(* touches the session, and is resumed at any time.                       *)

Settled == \A i \in 1..Len(handlers) : handlers[i].pc = "menu"

ResumeBridge ==
  \E i \in 1..Len(handlers) :
    \/ ResumeWelcome(i)
    \/ ResumeInsertEvent(i)
    \/ ResumeUpsertCall(i)
    \/ ResumeFallbackCall(i)
    \/ ResumeFallbackMessages(i)

Next ==
  \/ Settled /\ Webhook
  \/ Settled /\ CarrierStart
  \/ Settled /\ CarrierMedia
  \/ Settled /\ CarrierStop
  \/ Settled /\ CarrierClose
  \/ Settled /\ AgentOpen
  \/ Settled /\ AgentClosed
  \/ Settled /\ AgentWelcome
  \/ Settled /\ AgentSettingsApplied
  \/ ResumeBridge

Spec == Init /\ [][Next]_vars

(* SpecTeardown: the outcome of a call whose agent sends transcript        *)
(* messages: the teardown by the stop event and by the socket close, with *)
(* every await of the handlers resumed at any time.                       *)

ResumeTeardown ==
  \E i \in 1..Len(handlers) :
    \/ ResumeInsertMessage(i)
    \/ ResumeInsertEvent(i)
    \/ ResumeUpsertCall(i)
    \/ ResumeFallbackCall(i)
    \/ ResumeFallbackMessages(i)
    \/ ResumeFallbackStructured(i)
    \/ ResumeFallbackUpsert(i)
    \/ ResumeFallbackEvent(i)
    \/ ResumeExistingOrder(i)
    \/ ResumeExistingReservation(i)
    \/ ResumeMaterializeOrder(i)
    \/ ResumeMaterializeReservation(i)
    \/ ResumeSummary(i)

NextTeardown ==
  \/ Webhook
  \/ CarrierStart
  \/ CarrierStop
  \/ CarrierClose
  \/ AgentOpen
  \/ AgentConversationText
  \/ ResumeTeardown

SpecTeardown == Init /\ [][NextTeardown]_vars

(* SpecSequence: as SpecTeardown, with the teardowns one after the other:  *)
(* a stop event or socket close arrives when no teardown is running.      *)

NoTeardown == \A i \in 1..Len(handlers) : ~Teardown(i)

NextSequence ==
  \/ Webhook
  \/ CarrierStart
  \/ NoTeardown /\ CarrierStop
  \/ NoTeardown /\ CarrierClose
  \/ AgentOpen
  \/ AgentConversationText
  \/ ResumeTeardown

SpecSequence == Init /\ [][NextSequence]_vars

(* SpecTool: the outcome of a call whose agent sends tool-call messages,  *)
(* torn down by the stop event.                                           *)

ResumeTool ==
  \E i \in 1..Len(handlers) :
    \/ ResumeToolEvent(i)
    \/ ResumeToolCreate(i)
    \/ ResumeInsertEvent(i)
    \/ ResumeUpsertCall(i)
    \/ ResumeFallbackCall(i)
    \/ ResumeFallbackMessages(i)

NextTool ==
  \/ Webhook
  \/ CarrierStart
  \/ CarrierStop
  \/ AgentOpen
  \/ AgentFunctionCall
  \/ ResumeTool

SpecTool == Init /\ [][NextTool]_vars

(* SpecPeers: two concurrent calls, each on its carrier socket, with the   *)
(* handlers of the two interleaved. As in Spec, a persistence await is    *)
(* resumed before the next socket event.                                  *)

BridgeIdle ==
  UNCHANGED <<bridgeVars, handlers, dbVars, priorCall, outage, reconcilerRuns, processVars, extraction, replaced>>

PeersSettled == \A i \in 1..Len(peerHandlers) : peerHandlers[i].pc = "menu"

PeerEvent(c) ==
  \/ PeerStart(c)
  \/ PeerMedia(c)
  \/ PeerStop(c)
  \/ PeerClose(c)
  \/ PeerAgentOpen(c)
  \/ PeerAgentWelcome(c)
  \/ PeerAgentSettingsApplied(c)

PeerResume ==
  \E i \in 1..Len(peerHandlers) :
    \/ PeerResumeWelcome(i)
    \/ PeerResumeInsertEvent(i)
    \/ PeerResumeUpsertCall(i)

NextPeers ==
  \/ \E c \in Peers : PeersSettled /\ PeerStart(c) /\ BridgeIdle
  \/ \E c \in Peers : PeersSettled /\ PeerMedia(c) /\ BridgeIdle
  \/ \E c \in Peers : PeersSettled /\ PeerStop(c) /\ BridgeIdle
  \/ \E c \in Peers : PeersSettled /\ PeerClose(c) /\ BridgeIdle
  \/ \E c \in Peers : PeersSettled /\ PeerAgentOpen(c) /\ BridgeIdle
  \/ \E c \in Peers : PeersSettled /\ PeerAgentWelcome(c) /\ BridgeIdle
  \/ \E c \in Peers : PeersSettled /\ PeerAgentSettingsApplied(c) /\ BridgeIdle
  \/ PeerResume /\ BridgeIdle

SpecPeers == Init /\ [][NextPeers]_vars

(* SpecHandshake: the agent's messages at every stage of the handshake.   *)
(* The call has started and the agent socket is open; the session is      *)
(* before the handshake, buffering (Settings sent) or streaming.          *)

OpenedSession == [connect(NewSession) EXCEPT !.deepgramWs = "OPEN"]
BufferingSession == welcomeResume(welcomeBegin(OpenedSession))
StreamingSession == settingsApplied(BufferingSession)

InitHandshake ==
  /\ twilioWs = "open"
  /\ activeCallSid = CallSid
  /\ sessions = {CallSid}
  /\ session \in {OpenedSession, BufferingSession, StreamingSession}
  /\ handlers = <<>>
  /\ chunks = <<>>
  /\ agentMsgs = 0
  /\ stops = 0
  /\ callRow = upsertCall(NoCallRow, "in_progress", CallerPhone, "t", "undefined")
  /\ callMessages = <<>>
  /\ callEvents = [e \in EventTypes |->
                     IF \/ e = "twilio.start"
                        \/ e = "deepgram.Welcome" /\ session.settingsSent
                        \/ e = "deepgram.SettingsApplied" /\ session.deepgramReady
                     THEN 1 ELSE 0]
  /\ structuredOutput = NoStructured
  /\ orders = <<>>
  /\ reservations = <<>>
  /\ dbFailures = 0
  /\ priorCall = NoCallRow
  /\ outage = {}
  /\ reconcilerRuns = 0
  /\ NoPeers
  /\ NoFaults

NextHandshake ==
  \/ Settled /\ CarrierMedia
  \/ Settled /\ CarrierStop
  \/ Settled /\ CarrierClose
  \/ Settled /\ AgentClosed
  \/ Settled /\ AgentWelcome
  \/ Settled /\ AgentSettingsApplied
  \/ Settled /\ AgentUserStartedSpeaking
  \/ Settled /\ AgentAudio
  \/ ResumeBridge

SpecHandshake == InitHandshake /\ [][NextHandshake]_vars

(* SpecRelay: the relay of a running call: transcript turns and tool      *)
(* calls arrive, their handlers' awaits are resumed in any order, and the *)
(* database may be in an outage of some of its tables.                    *)

InitRelay ==
  /\ twilioWs = "open"
  /\ activeCallSid = CallSid
  /\ sessions = {CallSid}
  /\ session = StreamingSession
  /\ handlers = <<>>
  /\ chunks = <<>>
  /\ agentMsgs = 0
  /\ stops = 0
  /\ callRow = upsertCall(NoCallRow, "in_progress", CallerPhone, "t", "undefined")
  /\ callMessages = <<>>
  /\ callEvents = [e \in EventTypes |->
                     IF e \in {"twilio.start", "deepgram.Welcome", "deepgram.SettingsApplied"}
                     THEN 1 ELSE 0]
  /\ structuredOutput = NoStructured
  /\ orders = <<>>
  /\ reservations = <<>>
  /\ dbFailures = 0
  /\ priorCall = NoCallRow
  /\ outage \in SUBSET Tables
  /\ reconcilerRuns = 0
  /\ NoPeers
  /\ NoFaults

ResumeRelay ==
  \E i \in 1..Len(handlers) :
    \/ ResumeInsertMessage(i)
    \/ ResumeToolEvent(i)
    \/ ResumeToolCreate(i)
    \/ ResumeInsertEvent(i)

NextRelay ==
  \/ CarrierMedia
  \/ AgentTurn
  \/ AgentFunctionCall
  \/ ResumeRelay

SpecRelay == InitRelay /\ [][NextRelay]_vars

(* SpecReconcile: the Stale-Call Reconciler beside the life of a call: the *)
(* table holds the row of an earlier call, the threshold passes, and the  *)
(* runs of the reconciler interleave with the handlers of the call.       *)

PriorCalls ==
  {NoCallRow}
  \cup {[exists |-> TRUE, status |-> st, from_number |-> CallerPhone, started_at |-> "t",
          ended_at |-> IF st = "completed" THEN "t" ELSE "null", summary |-> FALSE,
          created_at |-> age] :
          st \in {"in_progress", "completed"}, age \in {"recent", "old"}}

InitReconcile ==
  /\ twilioWs = "open"
  /\ activeCallSid = NoCallSid
  /\ sessions = {}
  /\ session = NewSession
  /\ handlers = <<>>
  /\ chunks = <<>>
  /\ agentMsgs = 0
  /\ stops = 0
  /\ callRow = NoCallRow
  /\ callMessages = <<>>
  /\ callEvents = [e \in EventTypes |-> 0]
  /\ structuredOutput = NoStructured
  /\ orders = <<>>
  /\ reservations = <<>>
  /\ dbFailures = 0
  /\ priorCall \in PriorCalls
  /\ outage = {}
  /\ reconcilerRuns = 0
  /\ NoPeers
  /\ NoFaults

ResumeReconcile ==
  \E i \in 1..Len(handlers) :
    \/ ResumeInsertEvent(i)
    \/ ResumeUpsertCall(i)
    \/ ResumeFallbackCall(i)
    \/ ResumeFallbackMessages(i)
    \/ ResumeReconcilerSelect(i)
    \/ ResumeReconcilerUpdate(i)

NextReconcile ==
  \/ Webhook
  \/ CarrierStart
  \/ CarrierStop
  \/ CarrierClose
  \/ AgentOpen
  \/ MinutesPass
  \/ ReconcilerStart
  \/ ResumeReconcile

SpecReconcile == InitReconcile /\ [][NextReconcile]_vars

(* SpecReconcileRun: as SpecReconcile, with every run of the reconciler   *)
(* on its own: nothing else happens between its start and its end.       *)

NoReconciler == \A i \in 1..Len(handlers) : handlers[i].kind # "reconciler"

NextReconcileRun ==
  \/ NoReconciler /\ Webhook
  \/ NoReconciler /\ CarrierStart
  \/ NoReconciler /\ CarrierStop
  \/ NoReconciler /\ CarrierClose
  \/ NoReconciler /\ AgentOpen
  \/ NoReconciler /\ MinutesPass
  \/ NoReconciler /\ ReconcilerStart
  \/ NoReconciler /\ ResumeReconcile
  \/ \E i \in 1..Len(handlers) : ResumeReconcilerSelect(i) \/ ResumeReconcilerUpdate(i)

SpecReconcileRun == InitReconcile /\ [][NextReconcileRun]_vars

(* SpecExtract: the extractor. The stop handler of a finished call is at   *)
(* the select of the transcript, and the transcript is drawn from the     *)
(* rows that user and assistant turns with the extractor's phrases leave. *)

ExtractRoles == {"user", "assistant"}
ExtractTexts == SUBSET {NamePhrase, PartyPhrase, TimePhrase, ConfirmPhrase} \ {{}}
ExtractRows == [role : ExtractRoles, text : ExtractTexts]

Transcripts == UNION {[1..n -> ExtractRows] : n \in 1..MaxTranscriptRows}

CompletedCall == upsertCall(upsertCall(NoCallRow, "in_progress", CallerPhone, "t", "undefined"),
                            "completed", "undefined", "undefined", "t")

InitExtract ==
  /\ twilioWs = "open"
  /\ activeCallSid = CallSid
  /\ sessions = {}
  /\ callMessages \in Transcripts
  /\ session = [close(handleTwilioStop([connect(NewSession) EXCEPT !.deepgramWs = "OPEN"]))
                  EXCEPT !.transcriptTurns = Len(callMessages)]
  /\ handlers = <<[Handler("stop", "fb_messages", NoEvt) EXCEPT !.callRow = CompletedCall]>>
  /\ chunks = <<>>
  /\ agentMsgs = 0
  /\ stops = 1
  /\ callRow = CompletedCall
  /\ callEvents = [e \in EventTypes |->
                     IF e = "twilio.start" THEN 1
                     ELSE IF e = "deepgram.ConversationText" THEN Len(callMessages)
                     ELSE 0]
  /\ structuredOutput = NoStructured
  /\ orders = <<>>
  /\ reservations = <<>>
  /\ dbFailures = 0
  /\ priorCall = NoCallRow
  /\ outage = {}
  /\ reconcilerRuns = 0
  /\ NoPeers
  /\ NoFaults

NextExtract ==
  \E i \in 1..Len(handlers) :
    \/ ResumeFallbackMessages(i)
    \/ ResumeFallbackStructured(i)
    \/ ResumeFallbackUpsert(i)
    \/ ResumeFallbackEvent(i)

SpecExtract == InitExtract /\ [][NextExtract]_vars

(* SpecStuck: a call whose carrier socket never signals stop and never    *)
(* closes, beside the reconciler. The timer of setInterval fires for as   *)
(* long as the process runs, time passes, and a query of a run that was   *)
(* sent is answered: the ticks, the passing of the threshold and the two  *)
(* awaits of a run are weakly fair.                                       *)

ResumeStuck ==
  \E i \in 1..Len(handlers) :
    \/ ResumeInsertEvent(i)
    \/ ResumeReconcilerSelect(i)
    \/ ResumeReconcilerUpdate(i)

NextStuck ==
  \/ Webhook
  \/ CarrierStart
  \/ CarrierMedia
  \/ AgentOpen
  \/ MinutesPass
  \/ ReconcilerTick
  \/ ResumeStuck

SpecStuck ==
  /\ InitReconcile
  /\ [][NextStuck]_vars
  /\ WF_vars(MinutesPass)
  /\ WF_vars(ReconcilerTick)
  /\ WF_vars(\E i \in 1..Len(handlers) : ResumeReconcilerSelect(i))
  /\ WF_vars(\E i \in 1..Len(handlers) : ResumeReconcilerUpdate(i))

(* SpecWelcome: the handshake of a started call with every outcome of the  *)
(* fetch of the menu, beside carrier audio and the loss of the agent      *)
(* socket.                                                                *)

InitWelcome == InitHandshake /\ session = OpenedSession

ResumeMenu ==
  \E i \in 1..Len(handlers) :
    \/ ResumeWelcomeAnyMenu(i)
    \/ ResumeInsertEvent(i)

NextWelcome ==
  \/ Settled /\ CarrierMedia
  \/ Settled /\ AgentClosed
  \/ Settled /\ AgentWelcome
  \/ Settled /\ AgentSettingsApplied
  \/ ResumeMenu

SpecWelcome == InitWelcome /\ [][NextWelcome]_vars

(* SpecName: the extractor's customer name. The transcript is drawn from  *)
(* rows of caller and assistant turns that give a name, give none, or go  *)
(* on after the name, and the caller number from the numbers a call row   *)
(* can hold; the extractor is applied to it.                              *)

SaysAlexRivera ==
  <<Capital("my"), Lower("name"), Lower("is"), Capital("alex"), Capital("rivera")>>

NameTexts ==
  {SaysAlexRivera,
   SaysAlexRivera \o <<Mark(".")>>,
   SaysAlexRivera \o <<Lower("please")>>,
   SaysAlexRivera \o <<Mark(","), Lower("please")>>,
   <<Capital("alex"), Lower("speaking")>>,
   <<Capital("thank"), Lower("you"), Mark(","), Capital("alex")>>,
   <<Capital("hello")>>,
   <<Capital("yes"), Mark(".")>>}

NameRows == [role : {"user", "assistant"}, text : NameTexts]

NameTranscripts == UNION {[1..n -> NameRows] : n \in 1..MaxTranscriptRows}

\* CallerPhone by its characters, and the same number as a caller id may
\* format it.
CallerPhoneChars == <<"+", "1", "5", "5", "5", "1", "2", "3", "4", "5", "6", "7">>
FormattedPhoneChars ==
  <<"(", "5", "5", "5", ")", " ", "1", "2", "3", "-", "4", "5", "6", "7">>

\* calls.from_number: null, empty, or a number.
FromNumbers == {Absent, Str(<<>>), Str(CallerPhoneChars), Str(FormattedPhoneChars)}

InitName ==
  /\ twilioWs = "open"
  /\ activeCallSid = NoCallSid
  /\ sessions = {}
  /\ session = NewSession
  /\ handlers = <<>>
  /\ chunks = <<>>
  /\ agentMsgs = 0
  /\ stops = 0
  /\ callRow = NoCallRow
  /\ callMessages = <<>>
  /\ callEvents = [e \in EventTypes |-> 0]
  /\ structuredOutput = NoStructured
  /\ orders = <<>>
  /\ reservations = <<>>
  /\ dbFailures = 0
  /\ priorCall = NoCallRow
  /\ outage = {}
  /\ reconcilerRuns = 0
  /\ NoPeers
  /\ unparsable = [k \in Sockets |-> 0]
  /\ unhandled = 0
  /\ replaced = <<>>
  /\ \E rows \in NameTranscripts, fromNumber \in FromNumbers :
       extraction = [NoExtraction EXCEPT !.rows = rows, !.fromNumber = fromNumber]

NextName == ExtractCustomer

SpecName == InitName /\ [][NextName]_vars

(* SpecRole: inferRole applied to the role fields and event kinds a       *)
(* message may carry.                                                     *)

\* Nothing has happened: no call, no handler, no row.
Quiet ==
  /\ twilioWs = "open"
  /\ activeCallSid = NoCallSid
  /\ sessions = {}
  /\ session = NewSession
  /\ handlers = <<>>
  /\ chunks = <<>>
  /\ agentMsgs = 0
  /\ stops = 0
  /\ callRow = NoCallRow
  /\ callMessages = <<>>
  /\ callEvents = [e \in EventTypes |-> 0]
  /\ structuredOutput = NoStructured
  /\ orders = <<>>
  /\ reservations = <<>>
  /\ dbFailures = 0
  /\ priorCall = NoCallRow
  /\ outage = {}
  /\ reconcilerRuns = 0
  /\ NoPeers
  /\ unparsable = [k \in Sockets |-> 0]
  /\ unhandled = 0
  /\ replaced = <<>>

\* evt.role: absent, empty, a known name in any case, or another word.
RoleFields ==
  {Absent, Str(<<>>), Str(<<Lower("assistant")>>), Str(<<Capital("agent")>>),
   Str(<<[Lower("user") EXCEPT !.caps = "all"]>>), Str(<<Lower("caller")>>),
   Str(<<Capital("customer")>>), Str(<<Lower("system")>>), Str(<<Lower("bot")>>)}

\* evt.type by its words: kinds naming the agent, the assistant, the user,
\* the caller, both sides, and neither.
KindWords ==
  {<<Capital("conversation"), Capital("text")>>,
   <<Capital("agent"), Capital("response")>>,
   <<Lower("assistant"), Lower("message")>>,
   <<Capital("user"), Capital("transcript")>>,
   <<Capital("caller"), Capital("utterance")>>,
   <<Capital("user"), Capital("agent"), Capital("turn")>>,
   <<Lower("unknown")>>}

InitRole ==
  /\ Quiet
  /\ \E role \in RoleFields, kind \in KindWords :
       extraction = [role |-> role, kind |-> kind, done |-> FALSE, inferredRole |-> "none"]

NextRole == InferRole

SpecRole == InitRole /\ [][NextRole]_vars

(* SpecAudio: the agent's audio on its way to the carrier, between the    *)
(* other frames the session sends it, until the carrier socket closes.    *)

NextAudio ==
  \/ Settled /\ AgentBinary
  \/ Settled /\ AgentUserStartedSpeaking
  \/ Settled /\ CarrierClose
  \/ ResumeBridge

SpecAudio == InitHandshake /\ [][NextAudio]_vars

(* SpecSanitize: the name of the customer from transcripts in which      *)
(* several patterns match, a pattern captures an answer that is no name,  *)
(* or only the assistant names the caller; and sanitizeExtractedName on   *)
(* names of every shape.                                                  *)

SanitizeTexts ==
  {<<Capital("this"), Lower("is"), Lower("fine")>>,
   <<Capital("this"), Lower("is"), Capital("sam"), Mark(","),
     Lower("my"), Lower("name"), Lower("is"), Capital("alex")>>,
   <<Capital("i"), Mark("'"), Lower("m"), Capital("jo"), Mark(","),
     Lower("it"), Mark("'"), Lower("s"), Capital("max"), Lower("speaking")>>,
   <<Capital("name"), Lower("is"), Capital("ok")>>,
   <<Capital("thank"), Lower("you"), Mark(","), Capital("alex")>>,
   <<Capital("hello")>>}

SanitizeRows == [role : {"user", "assistant"}, text : SanitizeTexts]

SanitizeTranscripts == UNION {[1..n -> SanitizeRows] : n \in 1..MaxTranscriptRows}

\* Names handed to sanitizeExtractedName: none, digits, marks, an answer
\* that is no name in any case and with a mark, one to four words.
NameCandidates ==
  {<<>>, <<Digits("42")>>, <<Mark("!"), Mark("?")>>,
   <<Capital("ok")>>, <<Capital("my"), Lower("name")>>, <<Capital("fine"), Mark("!")>>,
   <<Capital("alex")>>, <<Lower("alex"), Digits("7")>>,
   <<Lower("alex"), Lower("de"), Lower("rivera")>>,
   <<Lower("alex"), Lower("de"), Lower("la"), Lower("rivera")>>}

InitSanitize ==
  /\ Quiet
  /\ \E rows \in SanitizeTranscripts, fromNumber \in {Absent, Str(CallerPhoneChars)},
        candidate \in NameCandidates :
       extraction = [rows |-> rows, fromNumber |-> fromNumber, done |-> FALSE,
                     customer |-> NoExtraction.customer,
                     candidate |-> candidate, sanitized |-> FALSE, cleaned |-> <<>>]

NextSanitize ==
  \/ ExtractCustomer
  \/ SanitizeName

SpecSanitize == InitSanitize /\ [][NextSanitize]_vars

(* SpecOrder: the order of the structured outcome from transcripts that   *)
(* name items of the menu once, twice, in the plural, on the assistant's  *)
(* side, or speak of an order without an item.                            *)

OrderTexts ==
  {<<Capital("a"), Capital("burger"), Lower("and"), Lower("fries")>>,
   <<Capital("two"), Lower("veggie"), Lower("burgers"), Lower("please")>>,
   <<Capital("i"), Lower("ordered"), Lower("yesterday")>>,
   <<Capital("hello")>>,
   <<Capital("your"), Lower("order"), Lower("is"), Lower("a"), Lower("burger")>>,
   <<Capital("we"), Lower("have"), Lower("fries"), Lower("today")>>,
   <<Capital("burger"), Mark(","), Lower("burger")>>}

OrderRows == [role : {"user", "assistant"}, text : OrderTexts]

OrderTranscripts == UNION {[1..n -> OrderRows] : n \in 1..MaxTranscriptRows}

\* menu_items: the active rows' id, name and price_cents; no row, a menu,
\* and a menu that lists a name twice.
Menus ==
  {<<>>,
   <<[id |-> 1, name |-> <<Capital("burger")>>, price_cents |-> 899],
     [id |-> 2, name |-> <<Capital("veggie"), Capital("burger")>>, price_cents |-> 1099],
     [id |-> 3, name |-> <<Capital("fries")>>, price_cents |-> 349]>>,
   <<[id |-> 3, name |-> <<Capital("fries")>>, price_cents |-> 349],
     [id |-> 4, name |-> <<Capital("fries")>>, price_cents |-> 399],
     [id |-> 5, name |-> <<Capital("salad")>>, price_cents |-> 0]>>}

InitOrder ==
  /\ Quiet
  /\ \E rows \in OrderTranscripts, menuRows \in Menus :
       extraction = [rows |-> rows, menuRows |-> menuRows, done |-> FALSE,
                     order |-> [total_cents |-> 0, items |-> <<>>], intent |-> FALSE]

NextOrder == ExtractOrder

SpecOrder == InitOrder /\ [][NextOrder]_vars

(* SpecRestart: the carrier may send a start event again on a socket     *)
(* that has had one, with the call identifier already registered.         *)

NextRestart ==
  \/ Settled /\ Webhook
  \/ Settled /\ CarrierStart
  \/ Settled /\ CarrierRestart
  \/ Settled /\ CarrierMedia
  \/ Settled /\ CarrierStop
  \/ Settled /\ CarrierClose
  \/ Settled /\ AgentOpen
  \/ ResumeBridge

SpecRestart == Init /\ [][NextRestart]_vars

(* SpecLate: a call whose row may be missing (the webhook's write failed  *)
(* or never came), with insertMessage and insertEvent resumed await by    *)
(* await while the stop event and the socket close tear the call down.    *)

ResumeLate ==
  \E i \in 1..Len(handlers) :
    \/ ResumeSelectCallRow(i)
    \/ ResumeFallbackRow(i)
    \/ callRow.exists /\ ResumeInsertMessage(i)
    \/ callRow.exists /\ ResumeInsertEvent(i)
    \/ ResumeUpsertCall(i)
    \/ ResumeFallbackCall(i)
    \/ ResumeFallbackMessages(i)
    \/ ResumeFallbackStructured(i)
    \/ ResumeFallbackUpsert(i)
    \/ ResumeFallbackEvent(i)
    \/ ResumeExistingOrder(i)
    \/ ResumeExistingReservation(i)
    \/ ResumeMaterializeOrder(i)
    \/ ResumeMaterializeReservation(i)
    \/ ResumeSummary(i)

NextLate ==
  \/ Webhook
  \/ CarrierStart
  \/ CarrierStop
  \/ CarrierClose
  \/ AgentOpen
  \/ AgentConversationText
  \/ ResumeLate

SpecLate == Init /\ [][NextLate]_vars

(* SpecUnread: as SpecTeardown, with a database whose reads can fail: the  *)
(* select upsertCall makes of the existing row may return an error while  *)
(* its upsert goes through.                                               *)

ResumeUnread ==
  \/ ResumeTeardown
  \/ \E i \in 1..Len(handlers) : ResumeUpsertCallUnread(i)

NextUnread ==
  \/ Webhook
  \/ CarrierStart
  \/ CarrierStop
  \/ CarrierClose
  \/ AgentOpen
  \/ AgentConversationText
  \/ ResumeUnread

SpecUnread == Init /\ [][NextUnread]_vars

(* SpecObserve: the agent's text messages at every stage of the handshake: *)
(* the session is before the handshake, buffering or streaming when a     *)
(* message with or without conversational text arrives.                   *)

ResumeObserve ==
  \E i \in 1..Len(handlers) :
    \/ ResumeWelcome(i)
    \/ ResumeInsertMessage(i)
    \/ ResumeInsertEvent(i)

NextObserve ==
  \/ Settled /\ CarrierMedia
  \/ Settled /\ AgentWelcome
  \/ Settled /\ AgentSettingsApplied
  \/ Settled /\ AgentMessage
  \/ ResumeObserve

SpecObserve == InitHandshake /\ [][NextObserve]_vars

(* SpecFaults: what can go wrong around a running call: frames that are   *)
(* not JSON on either socket, the agent socket closed by an error, the    *)
(* database in an outage of some tables during the relay, failing inserts *)
(* of the teardown and failing queries of the reconciler.                 *)

ResumeFaults ==
  \E i \in 1..Len(handlers) :
    \/ ResumeInsertMessage(i)
    \/ ResumeToolEvent(i)
    \/ ResumeToolCreate(i)
    \/ ResumeInsertEvent(i)
    \/ ResumeUpsertCall(i)
    \/ ResumeFallbackCall(i)
    \/ ResumeFallbackMessages(i)
    \/ ResumeFallbackStructured(i)
    \/ ResumeFallbackUpsert(i)
    \/ ResumeFallbackEvent(i)
    \/ ResumeExistingOrder(i)
    \/ ResumeExistingReservation(i)
    \/ ResumeMaterializeOrder(i)
    \/ ResumeMaterializeReservation(i)
    \/ ResumeSummary(i)
    \/ ResumeReconcilerSelect(i)
    \/ ResumeReconcilerUpdate(i)
    \/ ResumeReconcilerFails(i)

Idle == handlers = <<>>

NextFaults ==
  \/ Idle /\ CarrierUnparsable
  \/ Idle /\ AgentUnparsable
  \/ Idle /\ AgentClosed
  \/ Idle /\ AgentConversationText
  \/ Idle /\ AgentFunctionCall
  \/ Idle /\ CarrierStop
  \/ Idle /\ MinutesPass
  \/ Idle /\ ReconcilerStart
  \/ ResumeFaults

SpecFaults == InitRelay /\ [][NextFaults]_vars

(* ============================== claims ================================ *)

Chunks == 1..Len(chunks)

\* The chunk numbers of the audio frames sent to the agent socket, in the
\* order sent.
RECURSIVE AudioOf(_)
AudioOf(out) ==
  IF out = <<>> THEN <<>>
  ELSE IF Head(out).type = "audio" THEN <<Head(out).chunk>> \o AudioOf(Tail(out))
       ELSE AudioOf(Tail(out))

Frames(out, type) == {i \in 1..Len(out) : out[i].type = type}

\* C1: carrier audio that arrives while the agent is not ready
\* (deepgramReady false) is enqueued in arrival order, and is sent to the
\* agent socket in that order and before any chunk that arrived later: the
\* buffer is in arrival order; a chunk sent after a chunk that arrived later
\* did not arrive while the agent was not ready; a buffered chunk is in the
\* buffer or was sent; and once SettingsApplied is processed on an open
\* socket no chunk that arrived before it is left in the buffer.
C1_BufferedAudioKeepsArrivalOrder ==
  LET pending == session.pendingAudioChunks
      audio == AudioOf(session.agentOut)
  IN /\ \A i, j \in 1..Len(pending) : i < j => pending[i] < pending[j]
     /\ \A p, q \in 1..Len(audio) :
          (p < q /\ audio[p] > audio[q]) => chunks[audio[q]].deepgramReady
     /\ \A c \in Chunks :
          (chunks[c].fate = "buffered" /\ ~chunks[c].deepgramReady) =>
            \/ InSeq(c, pending) /\ \A q \in 1..Len(audio) : audio[q] < c
            \/ InSeq(c, audio)
     /\ (session.deepgramReady /\ session.deepgramWs = "OPEN") =>
          \A i \in 1..Len(pending) : chunks[pending[i]].deepgramReady

\* Two chunks buffered before readiness were flushed, and a chunk that
\* arrived after SettingsApplied was sent live behind them.
C1_Witness ==
  /\ Len(chunks) >= 3
  /\ chunks[1].fate = "buffered" /\ ~chunks[1].deepgramReady
  /\ chunks[2].fate = "buffered" /\ ~chunks[2].deepgramReady
  /\ chunks[3].fate = "live"
  /\ AudioOf(session.agentOut) = <<1, 2, 3>>

\* C2: in every reachable state pendingAudioChunks holds at most
\* BufferCapacity chunks.
C2_BufferWithinCapacity == Len(session.pendingAudioChunks) <= BufferCapacity

\* The buffer is full and a further chunk has arrived before readiness.
C2_Witness ==
  /\ Len(session.pendingAudioChunks) = BufferCapacity
  /\ \E c \in Chunks : chunks[c].fate = "full"

\* C3: a chunk that arrives while the buffer is at capacity evicts the
\* oldest chunk and is kept: after more than BufferCapacity chunks arrived
\* before any flush, the buffer holds the most recent BufferCapacity chunks.
C3_OldestChunkEvicted ==
  (/\ Len(chunks) > BufferCapacity
   /\ \A c \in Chunks : chunks[c].fate \in {"buffered", "full"}
   /\ AudioOf(session.agentOut) = <<>>)
  => session.pendingAudioChunks =
       [i \in 1..BufferCapacity |-> Len(chunks) - BufferCapacity + i]

\* C4: carrier audio that arrives for a registered session before the agent
\* has confirmed settings, while the agent socket is connecting or open, is
\* buffered (or meets the capacity bound), never dropped.
C4_AudioBufferedBeforeStreaming ==
  \A c \in Chunks :
    (/\ chunks[c].fate # "nosession"
     /\ chunks[c].ws \in {"CONNECTING", "OPEN"}
     /\ ~(chunks[c].settingsSent /\ chunks[c].deepgramReady))
    => chunks[c].fate \in {"buffered", "full"}

\* C5: whatever teardown requests reach the session (stop event, close(),
\* socket close), at most one Close frame is sent to the agent socket, the
\* socket's close() is called at most once, and no send throws.
C5_CloseTwiceIsNoOp ==
  /\ Cardinality(Frames(session.agentOut, "Close")) <= 1
  /\ session.closeCalls <= 1
  /\ session.faults = 0

\* The stop event closed an open agent socket, and the socket close then
\* requested the close again.
C5_Witness ==
  /\ stops >= 1 /\ twilioWs = "closed"
  /\ Cardinality(Frames(session.agentOut, "Close")) = 1
  /\ session.closeCalls = 1

\* C6: after the teardown of a session (its registry entry removed by the
\* stop event or the socket close) its agent socket is neither open nor
\* still connecting.
C6_TeardownClosesAgentSocket ==
  (activeCallSid # NoCallSid /\ activeCallSid \notin sessions)
  => session.deepgramWs \notin {"CONNECTING", "OPEN"}

TaggedOrders == TaggedRows(orders, CallSid)
TaggedReservations == TaggedRows(reservations, CallSid)

\* C7: for every interleaving of the materialization started by the stop
\* handler with the one started by the socket close handler, at most one
\* order row and at most one reservation row carry the tag of the call.
C7_OneTaggedRowPerCall ==
  /\ Cardinality(TaggedOrders) <= 1
  /\ Cardinality(TaggedReservations) <= 1

C9_ToolPathChecksTag ==
  [][/\ Len(orders') > Len(orders) => TaggedOrders = {}
     /\ Len(reservations') > Len(reservations) => TaggedReservations = {}]_vars

Rejected(h) ==
  h.kind = "agent" /\ h.evt.kind = "FunctionCallRequest" /\ ~toolAccepted(h.evt)

\* C10: a create_order / create_reservation payload whose customer / guest
\* name is missing or empty is rejected: its handler goes straight to the
\* last await of the message handler, no persisted order or reservation has
\* an empty name, and the end of its handler leaves orders, reservations and
\* the structured_output events as they were.
C10_NamelessToolCallRejected ==
  /\ [](/\ \A i \in 1..Len(handlers) : Rejected(handlers[i]) => handlers[i].pc = "event"
        /\ \A i \in 1..Len(orders) : Len(orders[i].customer_name) >= 1
        /\ \A i \in 1..Len(reservations) : Len(reservations[i].customer_name) >= 1
        /\ callEvents["structured_output.model_tool"] <= agentMsgs)
  /\ [][\A i \in 1..Len(handlers) :
          (Rejected(handlers[i]) /\ handlers' = Done(i)) =>
            /\ orders' = orders
            /\ reservations' = reservations
            /\ callEvents'["structured_output.model_tool"] =
                 callEvents["structured_output.model_tool"]]_vars

\* A rejected tool call was handled to its end and nothing but its
\* deepgram.FunctionCallRequest event is persisted.
C10_Witness ==
  /\ callEvents["deepgram.FunctionCallRequest"] >= 1
  /\ callEvents["structured_output.model_tool"] = 0
  /\ orders = <<>> /\ reservations = <<>>
  /\ handlers = <<>>

\* C11: the extractor's reservation status is confirmed exactly when the
\* name is verified, a party size was stated and a time was stated: with the
\* three it is confirmed, and without any one of them it is escalated,
\* whether or not an assistant utterance confirmed the booking.
C11_ConfirmedNeedsNamePartyTime ==
  \A i \in 1..Len(handlers) :
    (handlers[i].structured.has /\ handlers[i].structured.source = "transcript_fallback")
    => (handlers[i].structured.status = "confirmed"
          <=> /\ hasActualName(handlers[i].rows)
              /\ hasPartySize(handlers[i].rows)
              /\ hasReservationTime(handlers[i].rows))

Stale(row) == row.exists /\ row.status = "in_progress" /\ row.created_at = "old"

C13_ReconcilerKeepsNormalCompletion ==
  [][(callRow.status = "completed" /\ callRow.ended_at = "t")
       => (callRow'.status = "completed" /\ callRow'.ended_at = "t")]_vars

\* C14: the Settings handshake message is sent to the agent socket at most
\* once per session, whatever messages the agent sends, a repeated Welcome
\* and Welcome handlers that overlap at the fetch of the menu included.
C14_SettingsSentOnce == Cardinality(Frames(session.agentOut, "Settings")) <= 1

\* Streaming: the agent socket is open and carrier audio is forwarded live.
Streaming(s) == s.deepgramWs = "OPEN" /\ s.settingsSent /\ s.deepgramReady

\* C15: a session that is Streaming stays Streaming: a step leaves
\* Streaming only if it is the carrier stop event or the carrier socket
\* close (or the agent socket is closed by its peer); no agent message
\* moves the session back to buffering.
C15_StreamingIsKept ==
  [][Streaming(session) =>
       \/ Streaming(session')
       \/ stops' > stops
       \/ twilioWs' = "closed"
       \/ session'.deepgramWs = "CLOSED"]_vars

UserStartedSpeakingHandled ==
  /\ Len(handlers') = Len(handlers) + 1
  /\ handlers'[Len(handlers')].evt.kind = "UserStartedSpeaking"

\* C16: the handling of a UserStartedSpeaking message sends exactly one
\* clear frame with the session's stream identifier to the carrier socket,
\* in the step that handles the message and before the handler's first
\* persistence await, whatever the bridge state (before the handshake,
\* buffering, streaming); no other step sends a clear frame.
C16_BargeInClearsCarrierOutput ==
  [][/\ (UserStartedSpeakingHandled /\ twilioWs = "open") =>
          /\ session'.twilioOut = Append(session.twilioOut, ClearFrame)
          /\ handlers'[Len(handlers')].pc = "event"
          /\ callEvents' = callEvents
     /\ ~UserStartedSpeakingHandled =>
          \A n \in 1..Len(session'.twilioOut) :
            session'.twilioOut[n] = ClearFrame =>
              n <= Len(session.twilioOut) /\ session.twilioOut[n] = ClearFrame]_vars

\* The clear frame was sent before the handshake, and it was sent by a
\* session that was buffering after a Welcome.
C16_Witness ==
  /\ InSeq(ClearFrame, session.twilioOut)
  /\ ~session.deepgramReady
  /\ callEvents["deepgram.UserStartedSpeaking"] >= 1

StartStep == activeCallSid = NoCallSid /\ activeCallSid' # NoCallSid
StopStep == stops' > stops
CloseStep == twilioWs = "open" /\ twilioWs' = "closed" /\ activeCallSid # NoCallSid

C18_ConcurrentCallsIsolated ==
  [][\A c \in Peers :
       PeerEvent(c) =>
         LET o == 3 - c IN
         /\ peers'[o].session = peers[o].session
         /\ \A sid \in PeerSids : registry[sid] = o => registry'[sid] = o]_vars

\* Both calls are streaming with their own audio, and the first was then
\* torn down while the second is still registered and open.
C18_Witness ==
  /\ AudioOf(peers[1].session.agentOut) = <<1>>
  /\ AudioOf(peers[2].session.agentOut) = <<2>>
  /\ peers[1].session.deepgramWs = "CLOSING" /\ registry[PeerSid(1)] = 0
  /\ peers[2].session.deepgramWs = "OPEN" /\ registry[PeerSid(2)] = 2

\* C19: the transcript is append-only and in arrival order: a step leaves
\* the persisted turns as they are or appends one, and of two persisted
\* turns the one whose message arrived first is the earlier row.
C19_TranscriptInArrivalOrder ==
  /\ [](\A i, j \in 1..Len(callMessages) : \A a, b \in 1..(MaxTurns + 1) :
          (i < j /\ callMessages[i].text = TurnText(a) /\ callMessages[j].text = TurnText(b))
          => a < b)
  /\ [][/\ Len(callMessages') >= Len(callMessages)
        /\ SubSeq(callMessages', 1, Len(callMessages)) = callMessages]_vars

RelayPcs == {"message", "tool_event", "tool_create", "event"}
NextPc(pc) ==
  CASE pc = "message" -> "event"
    [] pc = "tool_event" -> "tool_create"
    [] pc = "tool_create" -> "event"
    [] OTHER -> "done"

Resumed(i) ==
  /\ handlers[i].kind = "agent" /\ handlers[i].pc \in RelayPcs
  /\ handlers' # handlers /\ Len(handlers') <= Len(handlers)
  /\ \/ handlers' = Done(i)
     \/ \E pc \in RelayPcs : handlers' = Goto(i, pc)

\* C20: a persistence write of the relay that fails (transcript append,
\* event append, order or reservation insert of a tool call) does not
\* propagate: the step that resumes the handler after the write takes it to
\* the await that follows a successful write, or to its end after the last
\* one, leaves the session, its agent socket and the carrier socket as they
\* were and the session registered.
C20_WriteFailuresAreCaught ==
  [][\A i \in 1..Len(handlers) :
       Resumed(i) =>
         /\ handlers' = IF handlers[i].pc = "event" THEN Done(i)
                        ELSE Goto(i, NextPc(handlers[i].pc))
         /\ session' = session
         /\ sessions' = sessions
         /\ twilioWs' = twilioWs]_vars

\* With the transcript and event tables in an outage and after a failed
\* order insert, every handler has ended: nothing of the turn and the tool
\* call is persisted and the session is registered, open and streaming.
C20_Witness ==
  /\ outage = Tables /\ dbFailures >= 1
  /\ session.transcriptTurns >= 1 /\ agentMsgs >= 1
  /\ handlers = <<>>
  /\ callMessages = <<>> /\ orders = <<>> /\ reservations = <<>>
  /\ CallSid \in sessions /\ Streaming(session)

\* C21: no event a handler can receive ends its handler with an uncaught
\* exception or an unhandled rejection: an unparsable frame of the agent or
\* of the carrier, the agent socket's error, a failing write of the relay or
\* of the teardown, a failing query of the reconciler.
C21_NoErrorReachesTheProcess == unhandled = 0

WelcomeResumed(i) ==
  /\ handlers[i].kind = "agent" /\ handlers[i].pc = "menu"
  /\ handlers' = Goto(i, "event")

\* C22: the fetch of the menu never blocks the handshake: the prompt is the
\* menu policy only for a fetch with rows and a static sentence for a fetch
\* that is empty or fails, and the step that resumes a Welcome handler after
\* the fetch sends, on an open agent socket, one Settings message with one of
\* these prompts and marks the settings sent.
C22_MenuFetchNeverBlocksHandshake ==
  /\ [](\A fetch \in MenuFetches :
          menuPrompt(fetch) = IF fetch = "rows" THEN MenuPolicy
                              ELSE IF fetch = "throws" THEN MenuCatch ELSE MenuUnavailable)
  /\ [][\A i \in 1..Len(handlers) :
          WelcomeResumed(i) =>
            /\ session'.settingsSent
            /\ session.deepgramWs = "OPEN" =>
                 \E prompt \in {MenuPolicy, MenuUnavailable, MenuCatch} :
                   session'.agentOut = Append(session.agentOut, SettingsWith(prompt))]_vars

\* Settings went out with the static sentence of a failed or empty fetch, and
\* the agent applied them: the session is streaming.
C22_Witness ==
  /\ InSeq(SettingsWith(MenuUnavailable), session.agentOut)
  /\ Streaming(session)

\* C23: a call that is in_progress and whose stop event and socket close
\* are never handled is eventually marked completed, by a run of the
\* reconciler at startup or on its interval.
C23_StuckCallIsReconciled ==
  (callRow.exists /\ callRow.status = "in_progress") ~> (callRow.status = "completed")

\* The call is still registered on its open carrier socket, no stop event
\* has arrived, and a reconciler run has marked it completed.
C23_Witness ==
  /\ activeCallSid = CallSid /\ CallSid \in sessions
  /\ stops = 0 /\ twilioWs = "open"
  /\ callRow.status = "completed" /\ callRow.ended_at = "r"

\* A caller turn of the transcript contains "My name is Alex Rivera".
CallerSaysAlexRivera ==
  \E i \in 1..Len(extraction.rows) :
    /\ extraction.rows[i].role = "user"
    /\ \E j \in 1..Len(extraction.rows[i].text) :
         HasAt(toLowerCase(extraction.rows[i].text), j, toLowerCase(SaysAlexRivera))

\* C24: for a transcript in which the caller says "My name is Alex Rivera",
\* the extractor returns the name "Alex Rivera" and has_actual_name true.
C24_NameAfterMyNameIs ==
  (extraction.done /\ CallerSaysAlexRivera)
  => /\ extraction.customer.name = <<Capital("alex"), Capital("rivera")>>
     /\ extraction.customer.has_actual_name

\* No name pattern matches: not on the caller's turns, not on the
\* assistant's.
NoNamePattern ==
  /\ nameMatch(toLowerCase(JoinRows(extraction.rows, {"user"}))) = <<>>
  /\ assistantNameMatch(toLowerCase(JoinRows(extraction.rows, {"assistant"}))) = <<>>

\* C25: for a transcript in which no name pattern matches, has_actual_name
\* is false and the name is "Caller 4567" with the caller number
\* "+15551234567", and "Caller" with no caller number.
C25_CallerFallbackName ==
  (extraction.done /\ NoNamePattern)
  => /\ ~extraction.customer.has_actual_name
     /\ extraction.fromNumber = Str(CallerPhoneChars) =>
          extraction.customer.name = <<Capital("caller"), Digits(<<"4", "5", "6", "7">>)>>
     /\ ~extraction.fromNumber.has => extraction.customer.name = <<Capital("caller")>>

\* The extractor was applied to a transcript without a name and the caller
\* number "+15551234567", and named the customer by the last four digits.
C25_Witness ==
  /\ extraction.done /\ NoNamePattern
  /\ extraction.fromNumber = Str(CallerPhoneChars)
  /\ extraction.customer.name = <<Capital("caller"), Digits(<<"4", "5", "6", "7">>)>>

ModelToolEvents == callEvents["structured_output.model_tool"]

ToolCreates(name) ==
  \E i \in 1..Len(handlers) :
    /\ handlers[i].kind = "agent" /\ handlers[i].pc = "tool_create"
    /\ handlers[i].evt.name = name
    /\ handlers' = Goto(i, "event")

\* C26: for a valid tool call the structured_output event (source
\* model_tool) is appended first and the order or reservation is persisted
\* only then: the step after the schema check appends the event (unless the
\* event table fails) and persists nothing, and goes on to the persist
\* whether or not the append failed; an order (reservation) row is appended
\* only by the persist step of a create_order (create_reservation) call, with
\* the call's name argument and notes that carry the tag of the session's
\* call identifier; with a working event table the events are at least as
\* many as the rows.
C26_ToolEventThenTaggedPersist ==
  /\ []("call_events" \notin outage => ModelToolEvents >= Len(orders) + Len(reservations))
  /\ [][/\ \A i \in 1..Len(handlers) :
             (Resumed(i) /\ handlers[i].pc = "tool_event") =>
               /\ handlers' = Goto(i, "tool_create")
               /\ orders' = orders /\ reservations' = reservations
               /\ "call_events" \notin outage => ModelToolEvents' = ModelToolEvents + 1
        /\ orders' # orders =>
             /\ ToolCreates("create_order")
             /\ Len(orders') = Len(orders) + 1 /\ SubSeq(orders', 1, Len(orders)) = orders
             /\ Tagged(orders'[Len(orders')], CallSid)
        /\ reservations' # reservations =>
             /\ ToolCreates("create_reservation")
             /\ Len(reservations') = Len(reservations) + 1
             /\ SubSeq(reservations', 1, Len(reservations)) = reservations
             /\ Tagged(reservations'[Len(reservations')], CallSid)]_vars

\* The event table is in an outage: no structured_output event was
\* appended, and the order of the tool call is persisted with the tag.
C26_Witness ==
  /\ "call_events" \in outage /\ ModelToolEvents = 0
  /\ Len(orders) = 1 /\ Tagged(orders[1], CallSid)
  /\ handlers = <<>>

Materializes(i, pc) ==
  /\ Teardown(i) /\ handlers[i].pc = pc
  /\ handlers' # handlers
  /\ handlers' = Done(i) \/ \E next \in {"mat_reservation", "summary"} : handlers' = Goto(i, next)

\* C27: the materializer appends an order (reservation) row only in its
\* order (reservation) step, only for an outcome whose order (reservation)
\* intent is true, and only while no row of the table carries the tag of the
\* call; with the intent false its step leaves the table as it was, and the
\* reservation step decides by the reservation intent and the tagged
\* reservation alone, whatever the order step did.
C27_MaterializesOnlyIntentAndAbsent ==
  [][/\ orders' # orders =>
          \E i \in 1..Len(handlers) :
            Materializes(i, "mat_order") /\ handlers[i].structured.order /\ TaggedOrders = {}
     /\ reservations' # reservations =>
          \E i \in 1..Len(handlers) :
            /\ Materializes(i, "mat_reservation")
            /\ handlers[i].structured.reservation /\ TaggedReservations = {}
     /\ \A i \in 1..Len(handlers) :
          /\ (Materializes(i, "mat_order") /\ ~handlers[i].structured.order)
               => orders' = orders
          /\ (Materializes(i, "mat_reservation") /\ ~handlers[i].structured.reservation)
               => reservations' = reservations
          /\ Materializes(i, "mat_order") => reservations' = reservations
          /\ Materializes(i, "mat_reservation") => orders' = orders]_vars

AgentSocketLost ==
  session.deepgramWs \in {"CONNECTING", "OPEN", "CLOSING"} /\ session'.deepgramWs = "CLOSED"

\* C28: the error or close event of the agent socket changes nothing in the
\* session or the registry: the step leaves the session's flags, buffer,
\* turn counter and sent frames as they were, calls no close(), starts no
\* handler, writes nothing and leaves the registry as it was; a session
\* whose agent socket is lost stays registered until the carrier stop event
\* or socket close, which alone remove a registry entry.
C28_AgentSocketLossChangesNothing ==
  /\ []((session.deepgramWs = "CLOSED" /\ activeCallSid # NoCallSid
           /\ stops = 0 /\ twilioWs = "open") => activeCallSid \in sessions)
  /\ [][/\ AgentSocketLost =>
             /\ session' = [session EXCEPT !.deepgramWs = "CLOSED"]
             /\ sessions' = sessions
             /\ handlers' = handlers
             /\ <<twilioWs, activeCallSid, chunks, stops>>' = <<twilioWs, activeCallSid, chunks, stops>>
             /\ <<callRow, callMessages, callEvents, orders, reservations>>'
                  = <<callRow, callMessages, callEvents, orders, reservations>>
        /\ (\E sid \in sessions : sid \notin sessions') => (StopStep \/ CloseStep)]_vars

\* The agent socket was lost while audio was buffered: the session is still
\* registered with its buffer, and no teardown has run.
C28_Witness ==
  /\ session.deepgramWs = "CLOSED" /\ CallSid \in sessions
  /\ session.pendingAudioChunks # <<>> /\ session.closeCalls = 0
  /\ stops = 0 /\ twilioWs = "open"

AgentUnparsableHandled == unparsable'["agent"] > unparsable["agent"]

\* C29: a text message of the agent that is not parsable JSON is
\* discarded: its handler changes no flag, buffer or turn counter of the
\* session, sends nothing to the agent socket or the carrier socket,
\* persists no transcript turn and no event and starts no await, and ends
\* without a rejection.
C29_UnparsableAgentMessageDiscarded ==
  [][AgentUnparsableHandled =>
       /\ session' = session
       /\ handlers' = handlers
       /\ <<callRow, callMessages, callEvents, structuredOutput, orders, reservations>>'
            = <<callRow, callMessages, callEvents, structuredOutput, orders, reservations>>
       /\ <<sessions, twilioWs, activeCallSid>>' = <<sessions, twilioWs, activeCallSid>>
       /\ unhandled' = unhandled]_vars

\* An unparsable agent message was handled in a streaming session: no turn
\* was counted and nothing was persisted or sent for it.
C29_Witness ==
  /\ unparsable["agent"] >= 1
  /\ Streaming(session) /\ session.transcriptTurns = 0 /\ session.twilioOut = <<>>
  /\ callMessages = <<>> /\ callEvents["deepgram.ConversationText"] = 0
  /\ handlers = <<>>

AgentMessageHandled ==
  /\ agentMsgs' = agentMsgs + 1
  /\ Len(handlers') = Len(handlers) + 1

AwaitingInsertMessage == {i \in 1..Len(handlers) : handlers[i].pc = "message"}

\* C30: the transcript is observed whatever the state of the bridge: a
\* text message of the agent counts one turn and starts one transcript
\* append exactly when it carries a non-blank text candidate and is no
\* lifecycle event, and counts and appends nothing otherwise; the append
\* adds exactly one row with the text, and no other step adds a row. The
\* extracted text is empty exactly when every candidate is absent or blank.
C30_TranscriptObservedInEveryState ==
  /\ [](/\ Len(callMessages) + Cardinality(AwaitingInsertMessage) = session.transcriptTurns
        /\ \A candidates \in CandidateLists :
             extractTranscript(candidates) = {}
               <=> \A n \in 1..Len(candidates) :
                     ~candidates[n].has \/ candidates[n].v \in {<<>>, <<" ">>})
  /\ [][/\ AgentMessageHandled =>
             LET h == handlers'[Len(handlers')]
                 carries == h.evt.text # {} /\ h.evt.kind \notin LifecycleKinds
             IN /\ session'.transcriptTurns =
                     session.transcriptTurns + (IF carries THEN 1 ELSE 0)
                /\ h.pc = "message" <=> carries
                /\ <<session.deepgramReady, session.settingsSent, session.pendingAudioChunks>>
                     = <<session'.deepgramReady, session'.settingsSent,
                         session'.pendingAudioChunks>>
                   \/ h.evt.kind \in {"Welcome", "SettingsApplied"}
        /\ callMessages' # callMessages =>
             \E i \in AwaitingInsertMessage :
               /\ handlers' = Goto(i, "event")
               /\ callMessages' = Append(callMessages,
                    [role |-> handlers[i].evt.role, text |-> handlers[i].evt.text])]_vars

\* Before the handshake (no Settings sent) a conversational message was
\* observed and persisted, and a lifecycle message with text was not.
C30_Witness ==
  /\ ~session.settingsSent /\ ~session.deepgramReady
  /\ session.transcriptTurns = 1 /\ Len(callMessages) = 1
  /\ agentMsgs = 2 /\ callEvents["deepgram.Metadata"] + callEvents["deepgram.Error"] = 1
  /\ handlers = <<>>


\* The role field names one of the words, in any case.
RoleNames(words) ==
  /\ extraction.role.has /\ Len(extraction.role.v) = 1
  /\ extraction.role.v[1].w \in words

\* The kind contains one of the words, in any case.
KindNames(words) == \E i \in 1..Len(extraction.kind) : extraction.kind[i].w \in words

\* C31: the role of a turn is assistant when the role field is assistant
\* or agent and user when it is user, caller or customer, whatever the
\* event kind; with any other role field it is assistant when the kind
\* contains assistant or agent, else user when the kind contains user or
\* caller, else system.
C31_RoleFieldThenKind ==
  extraction.done =>
    /\ RoleNames({"assistant", "agent"}) => extraction.inferredRole = "assistant"
    /\ RoleNames({"user", "caller", "customer"}) => extraction.inferredRole = "user"
    /\ ~RoleNames({"assistant", "agent", "user", "caller", "customer"}) =>
         extraction.inferredRole =
           IF KindNames({"assistant", "agent"}) THEN "assistant"
           ELSE IF KindNames({"user", "caller"}) THEN "user"
           ELSE "system"

\* A role field in upper case naming the user won over a kind naming the agent.
C31_Witness ==
  /\ extraction.done
  /\ extraction.role = Str(<<[Lower("user") EXCEPT !.caps = "all"]>>)
  /\ KindNames({"agent"})
  /\ extraction.inferredRole = "user"


\* The bytes of a base64 text.
RECURSIVE FromBase64(_)
FromBase64(chars) ==
  IF Len(chars) < 4 THEN <<>>
  ELSE LET c3 == IF chars[3] = Pad THEN 0 ELSE chars[3]
           c4 == IF chars[4] = Pad THEN 0 ELSE chars[4]
           n == chars[1] * 262144 + chars[2] * 4096 + c3 * 64 + c4
           bytes == <<n \div 65536, (n \div 256) % 256, n % 256>>
           kept == IF chars[3] = Pad THEN 1 ELSE IF chars[4] = Pad THEN 2 ELSE 3
       IN SubSeq(bytes, 1, kept) \o FromBase64(SubSeq(chars, 5, Len(chars)))

\* The payloads of the media frames of the carrier's output, decoded.
RECURSIVE MediaOf(_)
MediaOf(out) ==
  IF out = <<>> THEN <<>>
  ELSE (IF out[1].event = "media" THEN <<FromBase64(out[1].payload)>> ELSE <<>>)
       \o MediaOf(Tail(out))

BinaryHandled == Len(session'.agentIn) = Len(session.agentIn) + 1

\* C32: while the carrier socket is open, every binary frame of the agent
\* socket appends exactly one media frame to the carrier's output, with the
\* session's stream identifier and the base64 text of the frame's bytes,
\* so the media frames sent are the frames that arrived, in their order;
\* no other step sends a media frame.
C32_AgentAudioForwardedInOrder ==
  /\ [](/\ twilioWs = "open" => MediaOf(session.twilioOut) = session.agentIn
        /\ \A n \in 1..Len(session.twilioOut) :
             session.twilioOut[n].streamSid = StreamSid)
  /\ [][/\ BinaryHandled /\ twilioWs = "open" =>
             LET raw == session'.agentIn[Len(session'.agentIn)]
             IN /\ session'.twilioOut =
                     Append(session.twilioOut,
                            [event |-> "media", streamSid |-> StreamSid,
                             payload |-> base64(raw)])
                /\ FromBase64(base64(raw)) = raw
        /\ ~BinaryHandled => MediaOf(session'.twilioOut) = MediaOf(session.twilioOut)]_vars

\* Three frames of one, two and four bytes went out in their order, a
\* clear frame between them.
C32_Witness ==
  /\ session.agentIn = <<<<255>>, <<77, 97>>, <<0, 0, 1, 255>>>>
  /\ Len(session.twilioOut) = 4 /\ session.twilioOut[2] = ClearFrame
  /\ session.twilioOut[4].payload = <<0, 0, 0, 1, 63, 48, Pad, Pad>>


\* The answers that are no names.
StopList ==
  {<<"fine">>, <<"okay">>, <<"ok">>, <<"yes">>, <<"no">>, <<"name">>, <<"my", "name">>,
   <<"customer">>}

\* The capture of the k-th caller-side pattern alone, <<>> when it does not
\* match.
CallerPattern(userTranscript, k) ==
  LET u == Without(userTranscript, {Mark(","), Newline})
      l(w) == Lower(w)
  IN CASE k = 1 -> PrefixMatch(u, <<<<l("my"), l("name"), l("is"), l("like")>>,
                                    <<l("my"), l("name"), l("is")>>>>)
       [] k = 2 -> PrefixMatch(u, <<<<l("name"), l("is")>>>>)
       [] k = 3 -> PrefixMatch(u, <<<<l("this"), l("is")>>>>)
       [] k = 4 -> PrefixMatch(u, <<<<l("it"), Mark("'"), l("s")>>, <<l("it"), l("s")>>,
                                    <<l("its")>>>>)
       [] k = 5 -> SuffixMatch(u, l("speaking"))
       [] k = 6 -> PrefixMatch(u, <<<<l("i"), Mark("'"), l("m")>>, <<l("i"), l("m")>>,
                                    <<l("im")>>>>)
       [] k = 7 -> PrefixMatch(u, <<<<l("under"), l("the"), l("name")>>,
                                    <<l("under"), l("name")>>>>)

\* The caller-side patterns that match the caller's turns.
CallerMatches ==
  {k \in 1..7 : CallerPattern(toLowerCase(JoinRows(extraction.rows, {"user"})), k) # <<>>}

\* The name candidate: of the first caller-side pattern that matches, and
\* of the assistant-side pattern when none does.
NameCandidate ==
  IF CallerMatches # {}
  THEN CallerPattern(toLowerCase(JoinRows(extraction.rows, {"user"})),
                     CHOOSE k \in CallerMatches : \A j \in CallerMatches : k <= j)
  ELSE assistantNameMatch(toLowerCase(JoinRows(extraction.rows, {"assistant"})))

\* The words of a name: its tokens that are letters.
LetterWords(name) == {i \in 1..Len(name) : name[i].k = "w"}

\* A candidate is rejected: no letters, more than three words, or an answer
\* that is no name, in any case.
RejectedName(name) ==
  \/ LetterWords(name) = {}
  \/ Cardinality(LetterWords(name)) > 3
  \/ \E stop \in StopList :
       /\ Cardinality(LetterWords(name)) = Len(stop)
       /\ \A n \in 1..Len(stop) :
            \E i \in LetterWords(name) :
              /\ Cardinality({j \in LetterWords(name) : j <= i}) = n
              /\ name[i].w = stop[n]

\* C33: sanitizeExtractedName refuses a name that has no letter, more than
\* three words or is in the stoplist, and keeps the words of any other; the
\* customer's name comes from the first caller-side pattern that matches,
\* from the assistant-side pattern only when none matches, and when the
\* candidate is refused has_actual_name is false and the name is made of
\* the caller's number.
C33_RejectedCandidatesAndPatternPriority ==
  /\ extraction.sanitized =>
       (extraction.cleaned = <<>>) = RejectedName(extraction.candidate)
  /\ extraction.done =>
       /\ extraction.customer.has_actual_name = ~RejectedName(NameCandidate)
       /\ RejectedName(NameCandidate) =>
            extraction.customer.name =
              IF extraction.fromNumber.has
              THEN <<Capital("caller"), Digits(<<"4", "5", "6", "7">>)>>
              ELSE <<Capital("caller")>>
       /\ ~RejectedName(NameCandidate) =>
            Words(extraction.customer.name) = Words(NameCandidate)

\* The caller's turn matched a pattern with an answer that is no name while
\* the assistant named the caller: the candidate was refused and the
\* assistant's turn not consulted; and a name of four words was refused.
C33_Witness ==
  /\ extraction.done /\ extraction.sanitized
  /\ CallerMatches = {3} /\ NameCandidate = <<Lower("fine")>>
  /\ assistantNameMatch(toLowerCase(JoinRows(extraction.rows, {"assistant"}))) # <<>>
  /\ extraction.customer = [name |-> <<Capital("caller"), Digits(<<"4", "5", "6", "7">>)>>,
                            has_actual_name |-> FALSE]
  /\ Len(extraction.candidate) = 4 /\ extraction.cleaned = <<>>


\* The rows of the menu that the extractor matched.
MatchedItems ==
  {m \in 1..Len(extraction.menuRows) :
     includesText(transcriptForItems(extraction.rows),
                  toLowerCase(extraction.menuRows[m].name))}

\* The sum of the line totals of the first n items.
RECURSIVE LineTotals(_, _)
LineTotals(items, n) ==
  IF n = 0 THEN 0 ELSE items[n].lineTotalCents + LineTotals(items, n - 1)

\* C34: in the extractor's result every matched row of the menu is one
\* item with quantity 1 and the menu's price as line total, there is no
\* other item, the total is the sum of the line totals, and the order
\* intent is true exactly when the transcript contains "order" or an item
\* matched.
C34_OrderItemsAndTotal ==
  extraction.done =>
    LET items == extraction.order.items
        menu == extraction.menuRows
    IN /\ \A m \in MatchedItems :
            /\ Cardinality({i \in 1..Len(items) : items[i].menuItemId = menu[m].id}) = 1
            /\ \A i \in 1..Len(items) :
                 items[i].menuItemId = menu[m].id =>
                   /\ items[i].qty = 1
                   /\ items[i].lineTotalCents = menu[m].price_cents
                   /\ items[i].name = menu[m].name
       /\ Len(items) = Cardinality(MatchedItems)
       /\ extraction.order.total_cents = LineTotals(items, Len(items))
       /\ extraction.intent =
            (\/ MatchedItems # {}
             \/ \E r \in 1..Len(extraction.rows) :
                  \E i \in 1..Len(extraction.rows[r].text) :
                    extraction.rows[r].text[i].w \in {"order", "ordered"})

\* Two turns of the caller named three items of the menu, one of them in
\* the plural and inside the name of another, and never said "order": three
\* items, each once, and their sum.
C34_Witness ==
  /\ extraction.done /\ extraction.intent
  /\ Len(extraction.rows) = 2
  /\ Len(extraction.order.items) = 3
  /\ extraction.order.total_cents = 899 + 1099 + 349
  /\ \A r \in 1..2 : extraction.rows[r].role = "user"


\* C35: every audio chunk in the frames sent to the agent socket has a
\* Settings frame before it (and is sent by or after the SettingsApplied
\* handler, the only step that sets deepgramReady), and a Close frame is
\* the last frame sent.
C35_AudioAfterSettingsAndCloseLast ==
  \A n \in 1..Len(session.agentOut) :
    /\ session.agentOut[n].type = "audio" =>
         \E m \in 1..(n - 1) : session.agentOut[m].type = "Settings"
    /\ session.agentOut[n].type = "Close" => n = Len(session.agentOut)


\* C36: a session that forwards carrier audio live (Settings sent,
\* SettingsApplied received, agent socket open) holds no buffered chunk.
C36_NoChunkStrandedBehindLiveAudio ==
  (session.settingsSent /\ session.deepgramReady /\ session.deepgramWs = "OPEN")
  => session.pendingAudioChunks = <<>>


\* C37: while the session of a call is in the registry, the call's row is
\* not completed: the reconciler leaves a live call in_progress, however
\* long it lasts.
C37_ReconcilerSparesLiveCalls ==
  (activeCallSid # NoCallSid /\ activeCallSid \in sessions)
  => callRow.status # "completed"


\* C38: once the carrier socket has closed, the registry holds no session
\* and no session was put out of the handlers' reach by a later start
\* event without having been closed.
C38_EverySessionTornDown ==
  twilioWs = "closed" => (sessions = {} /\ replaced = <<>>)


\* C39: no step takes the row of a call from completed back to
\* in_progress.
C39_CompletedIsNotReopened ==
  [][callRow.status = "completed" => callRow'.status # "in_progress"]_vars


\* C40: marking a call completed at teardown leaves the from_number and
\* started_at the call row already held unchanged (to_number is computed by
\* the same expression as from_number): only status and ended_at change.
C40_CompletionKeepsCallerFields ==
  [][(callRow.exists /\ callRow.status # "completed" /\ callRow'.status = "completed")
       => (/\ callRow'.from_number = callRow.from_number
           /\ callRow'.started_at = callRow.started_at)]_vars

====
